---- MODULE Spec2Model ----
(***************************************************************************)
(* A model of the ADW orchestration tooling (src/adws):                    *)
(*   - the requirements pipeline orchestrator                              *)
(*       (adw_requirements_pipeline_iso.py),                               *)
(*   - the tracker calls of adw_modules/github.py and their retry loops,   *)
(*   - the concurrent issue dispatcher (adw_triggers/trigger_cron.py),     *)
(*   - the sequential queue processor (adw_triggers/trigger_cron_zte.py),  *)
(*   - the transcript folder watcher                                       *)
(*       (adw_triggers/trigger_transcript_watch.py),                       *)
(*   - the layered test runner and its resolution loops (adw_test.py).     *)
(* Each program is one specification (SpecPipeline, SpecRetry, SpecCron,   *)
(* SpecZte, SpecWatch, SpecTest); the variables of the other programs stay *)
(* at their idle value. SpecWatcherFair is the watcher under a fair        *)
(* scheduler.                                                              *)
(***************************************************************************)
EXTENDS Integers, Sequences, FiniteSets, TLC

VARIABLES
    \* ---- pipeline orchestrator (one run of main) ----
    pipe_pc,          \* position in main: "args","stage1","stage2","stage3","merge","summary","done","exited"
    skip_issues,      \* "--skip-issues" in sys.argv
    invoked,          \* stage numbers whose process was started, in order
    attempts_merge,   \* number of calls of merge_branch_to_main
    stage_rc,         \* returncode of the last stage process
    stage_stderr,     \* the last stage process wrote something to stderr
    saved_state,      \* the run record as state.save last wrote it
    emitted,          \* the result lines main printed so far, in order
    stage_stdout,     \* stdout of the last stage process (sequence of lines)
    logs,             \* per-stage log files written so far
    prd_path,         \* local prd_path (None until parsed)
    prompts_path,     \* local prompts_path
    created_issues,   \* local created_issues
    state_data,       \* the in-memory ADWState of the orchestrator
    state_saves,      \* number of state.save() calls
    merge_status,     \* "" | "MERGED" | "FAILED"
    pipe_exit,        \* exit code of the orchestrator process, NoExit while it runs
    \* ---- one call of a tracker function of adw_modules/github.py ----
    gh_fn,            \* the function called
    max_retries,      \* its max_retries argument
    attempt,          \* the loop variable: the attempt about to be made
    outcomes,         \* what subprocess.run did on each attempt so far
    calls,            \* the gh commands started, in order
    sleeps,           \* the arguments of time.sleep, in order
    last_error,       \* local last_error
    gh_status,        \* "running" | "returned" | "exited" | "raised"
    gh_result,        \* the value returned, or the exception type raised
    gh_exit,          \* exit code when the call ended the process, else NoExit
    comment_arg,      \* make_issue_comment: the comment argument (tokens of text)
    sent_bodies,      \* the --body argument of each "gh issue comment" run, in order
    \* ---- the issue tracker, as the dispatchers see it ----
    open_issues,      \* the open issues, in the order "gh issue list" returns them
    issue_body,       \* issue number -> body text
    comments,         \* issue number -> the comments of the issue (id, body)
    \* ---- concurrent dispatcher (trigger_cron.py) ----
    processed_issues,       \* global processed_issues
    issue_last_comment,     \* global issue_last_comment (0: no entry)
    running_workflows,      \* global running_workflows: issue -> state of its Popen handle
    shutdown_requested,     \* global shutdown_requested
    cron_pc,                \* "idle" (between cycles) | "dispatching" | "stopped"
    new_qualifying_issues,  \* the part of new_qualifying_issues still to dispatch
    spawned,                \* every workflow process started, in order
    last_skipped,           \* issues the last cycle skipped as already processed
    reap_log,               \* the lines the latest check_running_workflows printed
    \* ---- sequential queue processor (trigger_cron_zte.py) ----
    completed_issues,       \* global completed_issues
    zte_shutdown_requested, \* global shutdown_requested of trigger_cron_zte
    once_mode,              \* "--once" in sys.argv
    zte_pc,                 \* "scan" | "process" | "wait" | "done" | "exited"
    queue,                  \* the queue of the current pass
    queue_pos,              \* index of the next item of queue
    pass_results,           \* (issue, success) of the workflows run in this pass
    zte_exit,               \* exit code of the processor, NoExit while it runs
    \* ---- filesystem watcher (trigger_transcript_watch.py) ----
    folder_exists,          \* Path(TRANSCRIPT_FOLDER).exists()
    file_mtime,             \* watched file -> os.path.getmtime (a version counter)
    processed_log,          \* the log file: file -> logged file_mtime (0: no entry)
    watch_shutdown_requested, \* global shutdown_requested of the watcher
    watch_once,             \* args.once
    watch_pc,               \* "idle" | "triggering" | "exited"
    new_files,              \* the part of new_files still to trigger
    dispatched,             \* every pipeline process started: (file, mtime), in order
    pipeline_status,        \* file -> state of the last pipeline started for it
    seen_mtime,             \* the mtime is_processed read for each file the scan in
                            \* progress judged new (0: none)
    watch_last_skipped,     \* what the last scan skipped as processed, with the
                            \* state of the file's pipeline at that scan
    \* ---- test runner (adw_test.py), from "Starting test suite" on ----
    skip_static,            \* "--skip-static" in sys.argv
    skip_api,               \* "--skip-api" in sys.argv
    skip_e2e,               \* "--skip-e2e" in sys.argv
    e2e_test_files,         \* number of files glob finds in .claude/commands/e2e
    test_pc,                \* "static" | "unit" | "api" | "e2e" | "finish" | "exited"
    test_log,               \* layer executions and resolver rounds, in order
    static_failed,          \* main: static_failed
    failed_count,           \* main / run_tests_with_resolution: failed_count
    api_failed_count,       \* main: api_failed_count
    e2e_failed_count,       \* main / run_e2e_tests_with_resolution: failed_count
    test_attempt,           \* the local attempt of the resolution loop being run
    e2e_results,            \* results of the last run_e2e_tests: passed flag per file run
    test_exit,              \* exit code of adw_test, NoExit while it runs
    test_summary,           \* what log_test_results posted, NoSummary before
    parse_failed,           \* positions of test_log whose agent payload did not parse
    payload_faults,         \* whether the agents of this run can answer with an unparsable payload
    \* ---- one pipeline run and its run record ----
    run_pc,                 \* "orch_start" | "stage_start" | "stage_worktree" | "stage_work"
                            \* | "orch_after" | "merge" | "done" | "exited"
    run_stage,              \* the stage the orchestrator is at (0: none yet)
    run_skip,               \* "--skip-issues" in sys.argv
    disk,                   \* the run record on disk
    orch_mem,               \* the orchestrator's ADWState
    stage_mem,              \* the ADWState of the stage process last started
    worktree_exists,        \* the run's worktree directory exists
    stage_ok,               \* the stage process ended with its SUCCESS line and code 0
    run_creates,            \* number of calls of create_worktree
    run_invoked,            \* the programs that loaded the record, in order
    run_hist0,              \* the history on disk when the run began
    \* ---- a program started again and again with one existing run id ----
    start_prog,             \* the program: 0 the orchestrator, 1..3 a stage
    start_disk,             \* the run record on disk
    start_seen,             \* the record the program held after each start, in order
    \* ---- the processed-file log as a file (trigger_transcript_watch.py) ----
    log_file,               \* PROCESSED_LOG on disk
    log_pc,                 \* "idle" | "writing" (inside save_processed_log) | "down"
    log_data,               \* the dict mark_processed hands to save_processed_log
    log_written,            \* the keys a completed write has put in the file
    log_marks               \* the calls of mark_processed so far

pipeVars == << pipe_pc, skip_issues, invoked, attempts_merge, stage_rc, stage_stdout,
               logs, prd_path, prompts_path, created_issues, state_data,
               state_saves, merge_status, pipe_exit, stage_stderr, saved_state,
               emitted >>

retryVars == << gh_fn, max_retries, attempt, outcomes, calls, sleeps, last_error,
                gh_status, gh_result, gh_exit, comment_arg, sent_bodies >>

trackerVars == << open_issues, issue_body, comments >>

cronVars == << processed_issues, issue_last_comment, running_workflows,
               shutdown_requested, cron_pc, new_qualifying_issues, spawned,
               last_skipped, reap_log >>

zteVars == << completed_issues, zte_shutdown_requested, once_mode, zte_pc, queue,
              queue_pos, pass_results, zte_exit >>

watchVars == << folder_exists, file_mtime, processed_log, watch_shutdown_requested,
                watch_once, watch_pc, new_files, dispatched, pipeline_status,
                watch_last_skipped, seen_mtime >>

testVars == << skip_static, skip_api, skip_e2e, e2e_test_files, test_pc, test_log,
               static_failed, failed_count, api_failed_count, e2e_failed_count,
               test_attempt, e2e_results, test_exit, test_summary,
               parse_failed, payload_faults >>

runVars == << run_pc, run_stage, run_skip, disk, orch_mem, stage_mem, worktree_exists,
              stage_ok, run_creates, run_invoked, run_hist0 >>

startVars == << start_prog, start_disk, start_seen >>

logVars == << log_file, log_pc, log_data, log_written, log_marks >>

vars == << pipeVars, retryVars, trackerVars, cronVars, zteVars, watchVars, testVars,
           runVars, startVars, logVars >>

\* what an action of one program leaves alone: the other programs
PipeFrame ==
    UNCHANGED << retryVars, trackerVars, cronVars, zteVars, watchVars, testVars, runVars, startVars, logVars >>
RetryFrame ==
    UNCHANGED << pipeVars, trackerVars, cronVars, zteVars, watchVars, testVars, runVars, startVars, logVars >>
TrackerFrame ==
    UNCHANGED << pipeVars, retryVars, cronVars, zteVars, watchVars, testVars, runVars, startVars, logVars >>
CronFrame == UNCHANGED << pipeVars, retryVars, zteVars, watchVars, testVars, runVars, startVars, logVars >>
ZteFrame == UNCHANGED << pipeVars, retryVars, cronVars, watchVars, testVars, runVars, startVars, logVars >>
WatchFrame ==
    UNCHANGED << pipeVars, retryVars, trackerVars, cronVars, zteVars, testVars, runVars, startVars, logVars >>
TestFrame ==
    UNCHANGED << pipeVars, retryVars, trackerVars, cronVars, zteVars, watchVars, runVars, startVars, logVars >>
RunFrame ==
    UNCHANGED << pipeVars, retryVars, trackerVars, cronVars, zteVars, watchVars, testVars, startVars, logVars >>
StartFrame ==
    UNCHANGED << pipeVars, retryVars, trackerVars, cronVars, zteVars, watchVars, testVars, runVars, logVars >>
LogFrame ==
    UNCHANGED << pipeVars, retryVars, trackerVars, cronVars, zteVars, watchVars, testVars, runVars, startVars >>

\* ------------------------------------------------------------------------
\* Common values
\* ------------------------------------------------------------------------
None == "<None>"
NoExit == -1

RECURSIVE SeqsUpTo(_, _)
\* all sequences over S of length at most n
SeqsUpTo(S, n) ==
    IF n = 0 THEN { << >> }
    ELSE LET shorter == SeqsUpTo(S, n - 1)
         IN shorter \cup { Append(s, x) : s \in { t \in shorter : Len(t) = n - 1 }, x \in S }

MinOf(S) == CHOOSE x \in S : \A y \in S : x <= y

\* ------------------------------------------------------------------------
\* Pipeline orchestrator
\* ------------------------------------------------------------------------
MaxLines == 2

L_PRD == "SUCCESS: PRD generated at specs/prd.md"
L_PRD_BARE == "SUCCESS: PRD generated at"
L_PROMPTS == "SUCCESS: Prompts document generated at specs/prompts.md"
L_CREATED == "SUCCESS: Created 1 GitHub issues from prompts document"
L_ISSUE == "Created issue #12"
L_INFO == "INFO: working"

StdoutLines == { L_PRD, L_PRD_BARE, L_PROMPTS, L_CREATED, L_ISSUE, L_INFO }
Stdouts == SeqsUpTo(StdoutLines, MaxLines)
ReturnCodes == { 0, 1 }

PRD_PREFIX == "PRD generated"
PROMPTS_PREFIX == "Prompts document generated"

\* the <label> of a line of the form "SUCCESS: <label> at ...", None otherwise
MarkerLabel(line) ==
    CASE line = L_PRD -> PRD_PREFIX
      [] line = L_PRD_BARE -> PRD_PREFIX
      [] line = L_PROMPTS -> PROMPTS_PREFIX
      [] OTHER -> None

\* what follows "at" on the line itself, stripped
MarkerPath(line) ==
    CASE line = L_PRD -> "specs/prd.md"
      [] line = L_PROMPTS -> "specs/prompts.md"
      [] OTHER -> ""

\* re.search(r"SUCCESS:\s*<prefix>\s+at\s+(.+)", output): the leftmost marker
\* for prefix that can be completed. \s+ also matches the newline, so a marker
\* with nothing after "at" takes the following line as its path.
ParseSuccessPath(output, prefix) ==
    LET hits == { i \in 1..Len(output) :
                    /\ MarkerLabel(output[i]) = prefix
                    /\ (MarkerPath(output[i]) # "" \/ i < Len(output)) }
    IN IF hits = {} THEN None
       ELSE LET i == MinOf(hits)
            IN IF MarkerPath(output[i]) # "" THEN MarkerPath(output[i])
               ELSE output[i + 1]

FalsyNever(p) == FALSE

\* Python truthiness of the parsed path ("if not prd_path")
Falsy(p) == p = None \/ p = ""

StageFailedNever(rc) == FALSE

\* "if stageN.returncode != 0"
StageFailed(rc) == rc # 0

RECURSIVE ParseIssueNumbers(_)
\* re.findall(r"#(\d+)", output)
ParseIssueNumbers(output) ==
    IF output = << >> THEN << >>
    ELSE (IF Head(output) = L_ISSUE THEN << "12" >> ELSE << >>)
         \o ParseIssueNumbers(Tail(output))

EmptyState == [ plan_file |-> None, prompts_file |-> None, created_issues |-> None ]

PipeInit ==
    /\ pipe_pc = "args"
    /\ skip_issues \in BOOLEAN
    /\ invoked = << >>
    /\ attempts_merge = 0
    /\ stage_rc = 0
    /\ stage_stdout = << >>
    /\ logs = {}
    /\ prd_path = None
    /\ prompts_path = None
    /\ created_issues = << >>
    /\ state_data = EmptyState
    /\ saved_state = EmptyState
    /\ emitted = << >>
    /\ stage_stderr = FALSE
    /\ state_saves = 0
    /\ merge_status = ""
    /\ pipe_exit = NoExit

PipeIdle ==
    /\ pipe_pc = "idle"
    /\ skip_issues = FALSE
    /\ invoked = << >>
    /\ attempts_merge = 0
    /\ stage_rc = 0
    /\ stage_stdout = << >>
    /\ logs = {}
    /\ prd_path = None
    /\ prompts_path = None
    /\ created_issues = << >>
    /\ state_data = EmptyState
    /\ saved_state = EmptyState
    /\ emitted = << >>
    /\ stage_stderr = FALSE
    /\ state_saves = 0
    /\ merge_status = ""
    /\ pipe_exit = NoExit

\* the run id ensure_adw_id returned (line 105)
ADW_ID == "a1b2c3d4"

\* the "PRD generated" line, line 181
PrdLine(path) == [ kind |-> "prd", path |-> path ]

\* the "Prompts generated" line, line 230
PromptsLine(path) == [ kind |-> "prompts", path |-> path ]

\* the "Created N GitHub issues" line and the list under it, lines 274-276
IssuesLines(numbers) == [ kind |-> "issues", issues |-> numbers ]

\* the "Merged" or "Merge failed" line, lines 297-301
MergeLine(status) == [ kind |-> "merge", status |-> status ]

\* the "Issues:" line of the summary, lines 315-320: SKIPPED with
\* --skip-issues, otherwise the numbers (none: "0 created")
SummaryIssues(skip, numbers) ==
    [ skipped |-> skip, issues |-> IF skip THEN << >> ELSE numbers ]

CombinedSummaryWithoutMerge(prd, prompts, issues, status) ==
    [ kind |-> "summary", adw_id |-> ADW_ID, prd |-> prd, prompts |-> prompts,
      issues |-> issues, merge |-> "" ]

\* the "PIPELINE COMPLETE" block, lines 307-326
CombinedSummary(prd, prompts, issues, status) ==
    [ kind |-> "summary", adw_id |-> ADW_ID, prd |-> prd, prompts |-> prompts,
      issues |-> issues, merge |-> status ]

AfterStage2AlwaysStage3(skip) == "stage3"

\* "if skip_issues:", line 237: what follows a successful stage 2
AfterStage2(skip) == IF skip THEN "merge" ELSE "stage3"

StageLogsStdoutOnly(n, has_stderr) == { << n, "stdout" >> }

\* the per-stage log files written after subprocess.run returned
StageLogs(n, has_stderr) ==
    { << n, "stdout" >> } \cup (IF has_stderr THEN { << n, "stderr" >> } ELSE {})

\* sys.exit(1) after state.save(...) on a stage failure; only ERROR lines were
\* printed
StageFailExit ==
    /\ emitted' = emitted
    /\ state_saves' = state_saves + 1
    /\ saved_state' = state_data
    /\ pipe_exit' = 1
    /\ pipe_pc' = "exited"

\* main, lines 57-115: argument checks, ensure_adw_id, load and first save
PipeArgs ==
    /\ pipe_pc = "args"
    /\ PipeFrame
    /\ \E args_ok \in BOOLEAN :
         IF args_ok
         THEN /\ pipe_pc' = "stage1"
              /\ state_saves' = state_saves + 1
              /\ saved_state' = state_data
              /\ pipe_exit' = pipe_exit
         ELSE /\ pipe_pc' = "exited"
              /\ pipe_exit' = 1
              /\ state_saves' = state_saves
              /\ saved_state' = saved_state
    /\ UNCHANGED << skip_issues, invoked, attempts_merge, stage_rc, stage_stdout, logs,
                    prd_path, prompts_path, created_issues, state_data, merge_status,
                    stage_stderr, emitted >>

\* main, lines 147-183: stage 1 and what main does with its result
PipeStage1 ==
    /\ pipe_pc = "stage1"
    /\ PipeFrame
    /\ \E rc \in ReturnCodes, out \in Stdouts, has_stderr \in BOOLEAN :
         /\ invoked' = Append(invoked, 1)
         /\ stage_rc' = rc
         /\ stage_stderr' = has_stderr
         /\ stage_stdout' = out
         /\ logs' = logs \cup StageLogs(1, has_stderr)
         /\ IF StageFailed(rc)
            THEN /\ StageFailExit
                 /\ UNCHANGED << prd_path, state_data >>
            ELSE LET p == ParseSuccessPath(out, PRD_PREFIX)
                 IN /\ prd_path' = p
                    /\ IF Falsy(p)
                       THEN /\ StageFailExit
                            /\ UNCHANGED state_data
                       ELSE /\ emitted' = Append(emitted, PrdLine(p))
                            /\ state_data' = [ state_data EXCEPT !.plan_file = p ]
                            /\ saved_state' = state_data'
                            /\ state_saves' = state_saves + 1
                            /\ pipe_pc' = "stage2"
                            /\ pipe_exit' = pipe_exit
    /\ UNCHANGED << skip_issues, attempts_merge, prompts_path, created_issues, merge_status >>

\* main, lines 189-237: stage 2, then the --skip-issues branch
PipeStage2 ==
    /\ pipe_pc = "stage2"
    /\ PipeFrame
    /\ \E rc \in ReturnCodes, out \in Stdouts, has_stderr \in BOOLEAN :
         /\ invoked' = Append(invoked, 2)
         /\ stage_rc' = rc
         /\ stage_stderr' = has_stderr
         /\ stage_stdout' = out
         /\ logs' = logs \cup StageLogs(2, has_stderr)
         /\ IF StageFailed(rc)
            THEN /\ StageFailExit
                 /\ UNCHANGED << prompts_path, state_data >>
            ELSE LET p == ParseSuccessPath(out, PROMPTS_PREFIX)
                 IN /\ prompts_path' = p
                    /\ IF Falsy(p)
                       THEN /\ StageFailExit
                            /\ UNCHANGED state_data
                       ELSE /\ emitted' = Append(emitted, PromptsLine(p))
                            /\ state_data' = [ state_data EXCEPT !.prompts_file = p ]
                            /\ saved_state' = state_data'
                            /\ state_saves' = state_saves + 1
                            /\ pipe_pc' = AfterStage2(skip_issues)
                            /\ pipe_exit' = pipe_exit
    /\ UNCHANGED << skip_issues, attempts_merge, prd_path, created_issues, merge_status >>

\* main, lines 239-280: stage 3 (only without --skip-issues)
PipeStage3 ==
    /\ pipe_pc = "stage3"
    /\ PipeFrame
    /\ \E rc \in ReturnCodes, out \in Stdouts, has_stderr \in BOOLEAN :
         /\ invoked' = Append(invoked, 3)
         /\ stage_rc' = rc
         /\ stage_stderr' = has_stderr
         /\ stage_stdout' = out
         /\ logs' = logs \cup StageLogs(3, has_stderr)
         /\ IF StageFailed(rc)
            THEN /\ StageFailExit
                 /\ UNCHANGED << created_issues, state_data >>
            ELSE /\ created_issues' = ParseIssueNumbers(out)
                 /\ emitted' = Append(emitted, IssuesLines(ParseIssueNumbers(out)))
                 /\ state_data' = [ state_data EXCEPT
                                      !.created_issues = ParseIssueNumbers(out) ]
                 /\ saved_state' = state_data'
                 /\ state_saves' = state_saves + 1
                 /\ pipe_pc' = "merge"
                 /\ pipe_exit' = pipe_exit
    /\ UNCHANGED << skip_issues, attempts_merge, prd_path, prompts_path, merge_status >>

\* main, lines 285-302: merge_branch_to_main and its two outcomes
PipeMerge ==
    /\ pipe_pc = "merge"
    /\ PipeFrame
    /\ \E merge_success \in BOOLEAN :
         merge_status' = IF merge_success THEN "MERGED" ELSE "FAILED"
    /\ emitted' = Append(emitted, MergeLine(merge_status'))
    /\ attempts_merge' = attempts_merge + 1
    /\ pipe_pc' = "summary"
    /\ UNCHANGED << skip_issues, invoked, stage_rc, stage_stdout, logs, prd_path,
                    prompts_path, created_issues, state_data, state_saves, pipe_exit,
                    stage_stderr, saved_state >>

SummaryExitMergeFatal(status) == IF status = "FAILED" THEN 1 ELSE 0

\* main falls off its end after the summary, whatever merge_status holds, and
\* the process ends with exit code 0
SummaryExit(status) == 0

\* main, lines 307-326: the summary, after which main returns
PipeSummary ==
    /\ pipe_pc = "summary"
    /\ PipeFrame
    /\ pipe_pc' = "done"
    /\ pipe_exit' = SummaryExit(merge_status)
    /\ emitted' = Append(emitted,
                          CombinedSummary(prd_path, prompts_path,
                                          SummaryIssues(skip_issues, created_issues),
                                          merge_status))
    /\ UNCHANGED << skip_issues, invoked, attempts_merge, stage_rc, stage_stdout, logs,
                    prd_path, prompts_path, created_issues, state_data, state_saves,
                    merge_status, stage_stderr, saved_state >>

PipeNext ==
    \/ PipeArgs
    \/ PipeStage1
    \/ PipeStage2
    \/ PipeStage3
    \/ PipeMerge
    \/ PipeSummary

\* ------------------------------------------------------------------------
\* Tracker calls (adw_modules/github.py)
\* ------------------------------------------------------------------------
MaxRetries == 3

RetryFns == { "fetch_issue", "make_issue_comment" }
SingleFns == { "fetch_open_issues", "fetch_issue_comments", "mark_issue_in_progress" }

E_DIAL == "dial tcp: lookup api.github.com: i/o timeout"
E_TLS == "net/http: TLS handshake Timeout"
E_GQL == "GraphQL: Could not resolve to an Issue"
Stderrs == { E_DIAL, E_TLS, E_GQL }

\* str.lower()
Lower(text) ==
    CASE text = E_DIAL -> "dial tcp: lookup api.github.com: i/o timeout"
      [] text = E_TLS -> "net/http: tls handshake timeout"
      [] text = E_GQL -> "graphql: could not resolve to an issue"
      [] OTHER -> text

\* kw in text, for the lowered messages above
Contains(text, kw) ==
    \/ text = "dial tcp: lookup api.github.com: i/o timeout" /\ kw \in { "timeout", "i/o", "dial tcp" }
    \/ text = "net/http: tls handshake timeout" /\ kw = "timeout"

NETWORK_KEYWORDS == { "timeout", "i/o", "dial tcp" }

IsNetworkErrorNever(stderr) == FALSE

\* any(kw in last_error.lower() for kw in ["timeout", "i/o", "dial tcp"])
IsNetworkError(stderr) == \E kw \in NETWORK_KEYWORDS : Contains(Lower(stderr), kw)

\* what one subprocess.run(cmd, ..., timeout=30) can do: complete with a return
\* code (stdout parseable or not), or raise
Completed(rc, stderr, parses, payload) ==
    [ kind |-> "completed", rc |-> rc, stderr |-> stderr, parses |-> parses, payload |-> payload ]
RaisedKind(kind) ==
    [ kind |-> kind, rc |-> 0, stderr |-> "", parses |-> FALSE, payload |-> "" ]

Payloads == { "v1", "v2" }
AttemptOutcomes ==
    { Completed(0, "", TRUE, v) : v \in Payloads }
    \cup { Completed(0, "", FALSE, "") }
    \cup { Completed(rc, e, FALSE, "") : rc \in { 1, 4 }, e \in Stderrs }
    \cup { RaisedKind(k) : k \in { "TimeoutExpired", "FileNotFoundError", "OSError" } }

RECURSIVE Pow2(_)
Pow2(n) == IF n = 0 THEN 1 ELSE 2 * Pow2(n - 1)

BackoffOffByOne(a) == Pow2(a - 1)

\* wait = 2 ** attempt
Backoff(a) == Pow2(a)

AttemptsRemainOneFewer(a, n) == a + 1 < n

\* "if attempt < max_retries"
AttemptsRemain(a, n) == a < n

Command(fn) ==
    CASE fn = "fetch_issue" -> "issue view"
      [] fn = "make_issue_comment" -> "issue comment"
      [] fn = "fetch_open_issues" -> "issue list"
      [] fn = "fetch_issue_comments" -> "issue view comments"
      [] OTHER -> "issue edit"

MaxTokens == 2

ADW_BOT_IDENTIFIER == "[ADW-AGENTS]"

\* a comment text as a sequence of tokens: the bot marker, a space, a word
WORD == "done"
SPACE == " "
CommentTokens == { ADW_BOT_IDENTIFIER, SPACE, WORD }
CommentArgs == SeqsUpTo(CommentTokens, MaxTokens)

\* comment.startswith(ADW_BOT_IDENTIFIER)
StartsWithBotIdentifier(text) == text # << >> /\ Head(text) = ADW_BOT_IDENTIFIER

PrefixAlways(text) == << ADW_BOT_IDENTIFIER, SPACE >> \o text

\* lines 167-168: the comment as it is sent
WithBotIdentifier(text) ==
    IF ~StartsWithBotIdentifier(text)
    THEN << ADW_BOT_IDENTIFIER, SPACE >> \o text
    ELSE text

RetryInit ==
    \* max_retries is a parameter of fetch_issue and make_issue_comment only
    /\ \/ gh_fn \in RetryFns /\ max_retries \in 1..MaxRetries
       \/ gh_fn \in SingleFns /\ max_retries = 0
    /\ comment_arg \in (IF gh_fn = "make_issue_comment" THEN CommentArgs ELSE { << >> })
    /\ sent_bodies = << >>
    /\ attempt = 1
    /\ outcomes = << >>
    /\ calls = << >>
    /\ sleeps = << >>
    /\ last_error = None
    /\ gh_status = "running"
    /\ gh_result = None
    /\ gh_exit = NoExit

RetryIdle ==
    /\ gh_fn = "idle"
    /\ comment_arg = << >>
    /\ sent_bodies = << >>
    /\ max_retries = 0
    /\ attempt = 1
    /\ outcomes = << >>
    /\ calls = << >>
    /\ sleeps = << >>
    /\ last_error = None
    /\ gh_status = "idle"
    /\ gh_result = None
    /\ gh_exit = NoExit

\* print the retry notice, time.sleep(wait), continue
SleepAndContinue ==
    /\ sleeps' = Append(sleeps, Backoff(attempt))
    /\ attempt' = attempt + 1
    /\ UNCHANGED << gh_status, gh_result, gh_exit >>

\* sys.exit(code)
ExitProcess(code) ==
    /\ gh_status' = "exited"
    /\ gh_exit' = code
    /\ UNCHANGED << sleeps, attempt, gh_result >>

\* raise RuntimeError(...), propagating to the caller
RaiseTo(exc) ==
    /\ gh_status' = "raised"
    /\ gh_result' = exc
    /\ UNCHANGED << sleeps, attempt, gh_exit >>

ReturnValue(v) ==
    /\ gh_status' = "returned"
    /\ gh_result' = v
    /\ UNCHANGED << sleeps, attempt, gh_exit >>

\* fetch_issue, lines 101-153: one iteration of the loop, and the code after
\* the loop when the iteration was the last and fell through
FetchIssueAttempt ==
    /\ RetryFrame
    /\ gh_fn = "fetch_issue"
    /\ gh_status = "running"
    /\ attempt <= max_retries
    /\ \E o \in AttemptOutcomes :
         /\ outcomes' = Append(outcomes, o)
         /\ calls' = Append(calls, Command(gh_fn))
         /\ CASE o.kind = "completed" /\ o.rc = 0 /\ o.parses ->
                   /\ ReturnValue(o.payload)
                   /\ UNCHANGED last_error
              [] o.kind = "completed" /\ o.rc # 0 ->
                   /\ last_error' = o.stderr
                   /\ IF IsNetworkError(o.stderr) /\ AttemptsRemain(attempt, max_retries)
                      THEN SleepAndContinue
                      ELSE ExitProcess(o.rc)
              [] o.kind = "FileNotFoundError" ->
                   /\ ExitProcess(1)
                   /\ UNCHANGED last_error
              [] OTHER ->
                   \* TimeoutExpired; or json.loads / GitHubIssue(**data) raised,
                   \* or subprocess.run raised another Exception
                   /\ last_error' = IF o.kind = "completed" THEN "parse error" ELSE o.kind
                   /\ IF AttemptsRemain(attempt, max_retries)
                      THEN SleepAndContinue
                      ELSE ExitProcess(1)
    /\ UNCHANGED << gh_fn, max_retries, comment_arg, sent_bodies >>

\* make_issue_comment, lines 186-226: one iteration of the loop, and the code
\* after the loop when the iteration was the last and fell through
MakeIssueCommentAttempt ==
    /\ RetryFrame
    /\ gh_fn = "make_issue_comment"
    /\ gh_status = "running"
    /\ attempt <= max_retries
    /\ \E o \in AttemptOutcomes :
         /\ outcomes' = Append(outcomes, o)
         /\ calls' = Append(calls, Command(gh_fn))
         /\ sent_bodies' = Append(sent_bodies, WithBotIdentifier(comment_arg))
         /\ CASE o.kind = "completed" /\ o.rc = 0 ->
                   /\ ReturnValue(None)
                   /\ UNCHANGED last_error
              [] o.kind = "completed" /\ o.rc # 0 ->
                   /\ last_error' = o.stderr
                   /\ IF IsNetworkError(o.stderr) /\ AttemptsRemain(attempt, max_retries)
                      THEN SleepAndContinue
                      ELSE RaiseTo("RuntimeError")
              [] OTHER ->
                   \* TimeoutExpired, or any other Exception of subprocess.run
                   \* (FileNotFoundError included)
                   /\ last_error' = o.kind
                   /\ IF AttemptsRemain(attempt, max_retries)
                      THEN SleepAndContinue
                      ELSE RaiseTo("RuntimeError")
    /\ UNCHANGED << gh_fn, max_retries, comment_arg >>

\* the value of a function that runs its command once with check=True and
\* catches TimeoutExpired, CalledProcessError and JSONDecodeError
SingleCallResult(o) ==
    CASE o.kind = "completed" /\ o.rc = 0 /\ o.parses -> o.payload
      [] o.kind = "completed" -> "[]"
      [] o.kind = "TimeoutExpired" -> "[]"
      [] OTHER -> None

\* fetch_open_issues, lines 280-318, and fetch_issue_comments, lines 321-367
FetchListOnce ==
    /\ RetryFrame
    /\ gh_fn \in { "fetch_open_issues", "fetch_issue_comments" }
    /\ gh_status = "running"
    /\ \E o \in AttemptOutcomes :
         /\ outcomes' = Append(outcomes, o)
         /\ calls' = Append(calls, Command(gh_fn))
         /\ IF o.kind \in { "FileNotFoundError", "OSError" }
            THEN RaiseTo(o.kind)
            ELSE ReturnValue(SingleCallResult(o))
    /\ UNCHANGED << gh_fn, max_retries, last_error, comment_arg, sent_bodies >>

\* mark_issue_in_progress, lines 229-277: the label edit, then the assignee edit
MarkIssueInProgress ==
    /\ RetryFrame
    /\ gh_fn = "mark_issue_in_progress"
    /\ gh_status = "running"
    /\ \E o1 \in AttemptOutcomes, o2 \in AttemptOutcomes :
         IF o1.kind \in { "FileNotFoundError", "OSError" }
         THEN /\ outcomes' = Append(outcomes, o1)
              /\ calls' = Append(calls, "issue edit --add-label")
              /\ RaiseTo(o1.kind)
         ELSE /\ outcomes' = outcomes \o << o1, o2 >>
              /\ calls' = calls \o << "issue edit --add-label", "issue edit --add-assignee" >>
              /\ IF o2.kind \in { "FileNotFoundError", "OSError" }
                 THEN RaiseTo(o2.kind)
                 ELSE ReturnValue(None)
    /\ UNCHANGED << gh_fn, max_retries, last_error, comment_arg, sent_bodies >>

RetryNext ==
    \/ FetchIssueAttempt
    \/ MakeIssueCommentAttempt
    \/ FetchListOnce
    \/ MarkIssueInProgress

\* ------------------------------------------------------------------------
\* The issue tracker (what gh issue list / gh issue view return)
\* ------------------------------------------------------------------------
MaxComments == 2

TrackerIssues == { 7, 42, 100 }

T_RUN == "ADW_RUN please"
T_BOT_RUN == "[ADW-AGENTS] started adw_run workflow"
T_TALK == "looks good"
T_BOT_DONE == "[ADW-AGENTS] plan complete"
CommentBodies == { T_RUN, T_BOT_RUN, T_TALK, T_BOT_DONE }

I_RUN == "Add login page. adw_run"
I_PLAIN == "Add login page"
IssueBodies == { I_RUN, I_PLAIN }

\* str.lower() on the texts above
LowerText(text) ==
    CASE text = T_RUN -> "adw_run please"
      [] text = T_BOT_RUN -> "[adw-agents] started adw_run workflow"
      [] text = T_BOT_DONE -> "[adw-agents] plan complete"
      [] text = I_RUN -> "add login page. adw_run"
      [] text = I_PLAIN -> "add login page"
      [] OTHER -> text

\* needle in text (substring test) for the texts above
TextContains(text, needle) ==
    \/ needle = "adw_run" /\ text \in { T_BOT_RUN, I_RUN, "adw_run please",
                                         "[adw-agents] started adw_run workflow",
                                         "add login page. adw_run" }
    \/ needle = "ADW_RUN" /\ text = T_RUN
    \/ needle = ADW_BOT_IDENTIFIER /\ text \in { T_BOT_RUN, T_BOT_DONE }

\* "adw_run" in text_lower or "adw run" in text_lower
HasTrigger(text_lower) ==
    TextContains(text_lower, "adw_run") \/ TextContains(text_lower, "adw run")

RECURSIVE SumOver(_, _)
SumOver(S, f) ==
    IF S = {} THEN 0
    ELSE LET x == CHOOSE x \in S : TRUE IN f[x] + SumOver(S \ { x }, f)

TotalComments == SumOver(TrackerIssues, [ i \in TrackerIssues |-> Cardinality(comments[i]) ])

RECURSIVE SortByCreatedAt(_)
\* comments.sort(key=createdAt); ids are given in creation order
SortByCreatedAt(cs) ==
    IF cs = {} THEN << >>
    ELSE LET c == CHOOSE c \in cs : \A d \in cs : c.id <= d.id
         IN << c >> \o SortByCreatedAt(cs \ { c })

\* fetch_issue_comments, lines 321-367: the sorted comments, or [] when the
\* command failed
FetchIssueComments(i, fetch_ok) ==
    IF fetch_ok THEN SortByCreatedAt(comments[i]) ELSE << >>

RECURSIVE Orderings(_)
Orderings(S) ==
    IF S = {} THEN { << >> }
    ELSE UNION { { << x >> \o p : p \in Orderings(S \ { x }) } : x \in S }

SeqRange(q) == { q[k] : k \in 1..Len(q) }

TrackerIdle ==
    /\ open_issues = << >>
    /\ issue_body = [ i \in TrackerIssues |-> I_PLAIN ]
    /\ comments = [ i \in TrackerIssues |-> {} ]

\* a user, or a workflow through make_issue_comment, comments on an open issue;
\* a comment's id is its rank among the comments of its issue (the dispatchers
\* compare ids of one issue only)
PostComment ==
    /\ TrackerFrame
    /\ TotalComments < MaxComments
    /\ \E i \in SeqRange(open_issues), text \in CommentBodies :
         comments' = [ comments EXCEPT
                         ![i] = @ \cup { [ id |-> Cardinality(@) + 1, body |-> text ] } ]
    /\ UNCHANGED << open_issues, issue_body >>

\* ------------------------------------------------------------------------
\* Concurrent dispatcher (adw_triggers/trigger_cron.py)
\* ------------------------------------------------------------------------
CronIssues == { 7, 42 }

CronInit ==
    /\ open_issues \in Orderings(CronIssues)
    /\ issue_body \in { b \in [ TrackerIssues -> IssueBodies ] :
                           \A i \in TrackerIssues \ CronIssues : b[i] = I_PLAIN }
    /\ comments = [ i \in TrackerIssues |-> {} ]
    /\ processed_issues = {}
    /\ issue_last_comment = [ i \in TrackerIssues |-> 0 ]
    /\ running_workflows = [ i \in TrackerIssues |-> "none" ]
    /\ shutdown_requested = FALSE
    /\ cron_pc = "idle"
    /\ new_qualifying_issues = << >>
    /\ spawned = << >>
    /\ last_skipped = {}
    /\ reap_log = {}

CronIdle ==
    /\ processed_issues = {}
    /\ issue_last_comment = [ i \in TrackerIssues |-> 0 ]
    /\ running_workflows = [ i \in TrackerIssues |-> "none" ]
    /\ shutdown_requested = FALSE
    /\ cron_pc = "off"
    /\ new_qualifying_issues = << >>
    /\ spawned = << >>
    /\ last_skipped = {}
    /\ reap_log = {}

\* should_process_issue returned None
NoTrigger == [ issue |-> 0, by |-> "none", id |-> 0, text |-> "" ]

\* should_process_issue, lines 69-106, as a value: the trigger found
\* ([by |-> "body"], or [by |-> "comment"] with the comment), or NoTrigger
ShouldProcessIssue(i, fetched) ==
    IF HasTrigger(LowerText(issue_body[i]))
    THEN IF i \in processed_issues
         THEN NoTrigger
         ELSE [ issue |-> i, by |-> "body", id |-> 0, text |-> issue_body[i] ]
    ELSE IF fetched = << >>
         THEN NoTrigger
         ELSE LET latest_comment == fetched[Len(fetched)]
              IN IF issue_last_comment[i] = latest_comment.id
                 THEN NoTrigger
                 ELSE IF HasTrigger(LowerText(latest_comment.body))
                      THEN [ issue |-> i, by |-> "comment", id |-> latest_comment.id,
                             text |-> latest_comment.body ]
                      ELSE NoTrigger

SameProcessed(done, i) == done

\* processed_issues.add(issue_number)
AddProcessed(done, i) == done \cup { i }

RECURSIVE QualifyAll(_, _)
\* the loop of lines 189-201 over the listed issues: the triggers found
QualifyAll(listing, fetch_ok) ==
    IF listing = << >> THEN << >>
    ELSE LET i == Head(listing)
             found == IF i \in processed_issues THEN NoTrigger
                      ELSE ShouldProcessIssue(i, FetchIssueComments(i,
                                                 i \in DOMAIN fetch_ok => fetch_ok[i]))
         IN (IF found = NoTrigger THEN << >> ELSE << found >>)
            \o QualifyAll(Tail(listing), fetch_ok)

\* the issues for which a cycle reaches fetch_issue_comments
\* (should_process_issue, line 85)
CronFetches ==
    { i \in SeqRange(open_issues) :
        i \notin processed_issues /\ ~HasTrigger(LowerText(issue_body[i])) }

ReapEveryHandle == [ i \in TrackerIssues |-> "none" ]

\* check_running_workflows, lines 149-162: drop the handles whose process exited
ReapFinished == [ i \in TrackerIssues |->
                    IF running_workflows[i] = "finished" THEN "none"
                    ELSE running_workflows[i] ]

\* the return codes a workflow process ends with
ExitCodes == { 0, 1 }

\* check_running_workflows, lines 153-158: one line per handle whose poll()
\* returned a code (retcode: issue -> the code), INFO for 0 and WARNING
\* otherwise
ReapLog(retcode) ==
    { [ issue |-> i,
        level |-> IF retcode[i] = 0 THEN "INFO" ELSE "WARNING",
        retcode |-> retcode[i] ] : i \in DOMAIN retcode }

ShutdownIgnored == FALSE

\* "if shutdown_requested:" at the head of a cycle (line 167) and of each
\* iteration of the dispatch loop (line 208)
ShutdownObserved == shutdown_requested

\* check_and_process_issues, lines 165-205: reap, list, and qualify
CronCheck ==
    /\ CronFrame
    /\ cron_pc = "idle"
    /\ ~ShutdownObserved
    /\ running_workflows' = ReapFinished
    /\ \E retcode \in [ { i \in TrackerIssues : ReapFinished[i] # running_workflows[i] }
                           -> ExitCodes ] :
         reap_log' = ReapLog(retcode)
    /\ \E list_ok \in BOOLEAN, fetch_ok \in [ CronFetches -> BOOLEAN ] :
         LET issues == IF list_ok THEN open_issues ELSE << >>
             found == QualifyAll(issues, fetch_ok)
         IN /\ new_qualifying_issues' = found
            /\ issue_last_comment' =
                 [ i \in TrackerIssues |->
                     IF \E k \in 1..Len(found) : found[k].issue = i /\ found[k].by = "comment"
                     THEN (CHOOSE t \in SeqRange(found) : t.issue = i).id
                     ELSE issue_last_comment[i] ]
            /\ last_skipped' = SeqRange(issues) \cap processed_issues
            /\ cron_pc' = IF found = << >> THEN "idle" ELSE "dispatching"
    /\ UNCHANGED << processed_issues, shutdown_requested, spawned, trackerVars >>

\* check_and_process_issues, lines 207-216: one iteration of the dispatch loop
\* with trigger_adw_workflow, lines 109-146
CronDispatch ==
    /\ CronFrame
    /\ cron_pc = "dispatching"
    /\ LET t == Head(new_qualifying_issues)
           rest == Tail(new_qualifying_issues)
       IN IF ShutdownObserved
          THEN /\ new_qualifying_issues' = << >>
               /\ cron_pc' = "idle"
               /\ UNCHANGED << processed_issues, running_workflows, spawned >>
          ELSE /\ new_qualifying_issues' = rest
               /\ cron_pc' = IF rest = << >> THEN "idle" ELSE "dispatching"
               /\ \E popen_ok \in BOOLEAN :
                    IF popen_ok
                    THEN /\ running_workflows' = [ running_workflows EXCEPT ![t.issue] = "running" ]
                         /\ spawned' = Append(spawned, t)
                         /\ processed_issues' = AddProcessed(processed_issues, t.issue)
                    ELSE UNCHANGED << processed_issues, running_workflows, spawned >>
    /\ UNCHANGED << issue_last_comment, shutdown_requested, last_skipped, reap_log,
                    trackerVars >>

\* a background workflow process ends
WorkflowExits ==
    /\ CronFrame
    /\ \E i \in TrackerIssues :
         /\ running_workflows[i] = "running"
         /\ running_workflows' = [ running_workflows EXCEPT ![i] = "finished" ]
    /\ UNCHANGED << processed_issues, issue_last_comment, shutdown_requested, cron_pc,
                    new_qualifying_issues, spawned, last_skipped, reap_log, trackerVars >>

\* signal_handler, lines 62-66
CronSignal ==
    /\ CronFrame
    /\ cron_pc \in { "idle", "dispatching" }
    /\ ~shutdown_requested
    /\ shutdown_requested' = TRUE
    /\ UNCHANGED << processed_issues, issue_last_comment, running_workflows, cron_pc,
                    new_qualifying_issues, spawned, last_skipped, reap_log, trackerVars >>

\* main, lines 249-253: the scheduling loop ends
CronStop ==
    /\ CronFrame
    /\ cron_pc = "idle"
    /\ shutdown_requested
    /\ cron_pc' = "stopped"
    /\ UNCHANGED << processed_issues, issue_last_comment, running_workflows,
                    shutdown_requested, new_qualifying_issues, spawned, last_skipped,
                    reap_log, trackerVars >>

CronNext ==
    \/ CronCheck
    \/ CronDispatch
    \/ WorkflowExits
    \/ CronSignal
    \/ CronStop
    \/ PostComment

\* ------------------------------------------------------------------------
\* find_keyword_from_comment (adw_modules/github.py)
\* ------------------------------------------------------------------------
NoComment == [ id |-> 0, body |-> "" ]

RECURSIVE Reverse(_)
Reverse(q) == IF q = << >> THEN << >> ELSE Append(Reverse(Tail(q)), Head(q))

RECURSIVE FirstWithKeyword(_, _)
\* the loop of lines 384-390 over the comments, newest first
FirstWithKeyword(keyword, sorted_comments) ==
    IF sorted_comments = << >> THEN NoComment
    ELSE LET comment == Head(sorted_comments)
         IN IF TextContains(comment.body, ADW_BOT_IDENTIFIER)
            THEN FirstWithKeyword(keyword, Tail(sorted_comments))
            ELSE IF TextContains(comment.body, keyword)
                 THEN comment
                 ELSE FirstWithKeyword(keyword, Tail(sorted_comments))

\* find_keyword_from_comment, lines 370-392
FindKeywordFromComment(keyword, cs) ==
    FirstWithKeyword(keyword, Reverse(SortByCreatedAt(cs)))

\* ------------------------------------------------------------------------
\* Sequential queue processor (adw_triggers/trigger_cron_zte.py)
\* ------------------------------------------------------------------------
ZteInit ==
    /\ open_issues \in Orderings(TrackerIssues)
    /\ issue_body \in [ TrackerIssues -> IssueBodies ]
    /\ comments = [ i \in TrackerIssues |-> {} ]
    /\ completed_issues = {}
    /\ zte_shutdown_requested = FALSE
    /\ once_mode \in BOOLEAN
    /\ zte_pc = "scan"
    /\ queue = << >>
    /\ queue_pos = 1
    /\ pass_results = << >>
    /\ zte_exit = NoExit

RECURSIVE AnyUserTrigger(_)
\* the loop of lines 86-93 over the fetched comments
AnyUserTrigger(fetched) ==
    IF fetched = << >> THEN FALSE
    ELSE LET comment_body == Head(fetched).body
         IN IF TextContains(comment_body, ADW_BOT_IDENTIFIER)
            THEN AnyUserTrigger(Tail(fetched))
            ELSE IF HasTrigger(LowerText(comment_body))
                 THEN TRUE
                 ELSE AnyUserTrigger(Tail(fetched))

\* has_adw_run, lines 77-95
HasAdwRun(i, fetched) ==
    IF HasTrigger(LowerText(issue_body[i])) THEN TRUE ELSE AnyUserTrigger(fetched)

RECURSIVE Insert(_, _)
Insert(x, sorted) ==
    IF sorted = << >> THEN << x >>
    ELSE IF x <= Head(sorted) THEN << x >> \o sorted
         ELSE << Head(sorted) >> \o Insert(x, Tail(sorted))

RECURSIVE Sorted(_)
Sorted(q) == IF q = << >> THEN << >> ELSE Insert(Head(q), Sorted(Tail(q)))

ListingOrder(qualifying) == qualifying

\* qualifying.sort()
SortAscending(qualifying) == Sorted(qualifying)

RECURSIVE Qualifying(_, _)
\* the loop of lines 107-114 over the listed issues
Qualifying(listing, fetch_ok) ==
    IF listing = << >> THEN << >>
    ELSE LET i == Head(listing)
             rest == Qualifying(Tail(listing), fetch_ok)
         IN IF i \in completed_issues THEN rest
            ELSE IF HasAdwRun(i, FetchIssueComments(i, i \in DOMAIN fetch_ok => fetch_ok[i]))
                 THEN << i >> \o rest
                 ELSE rest

\* the issues for which a scan reaches fetch_issue_comments (has_adw_run, line 85)
ZteFetches ==
    { i \in SeqRange(open_issues) :
        i \notin completed_issues /\ ~HasTrigger(LowerText(issue_body[i])) }

\* find_qualifying_issues, lines 98-118
FindQualifyingIssues(list_ok, fetch_ok) ==
    IF ~list_ok \/ open_issues = << >> THEN << >>
    ELSE SortAscending(Qualifying(open_issues, fetch_ok))

LeaveCompleted(done, i) == done

\* completed_issues.add(issue_number), line 165
MarkCompleted(done, i) == done \cup { i }

ContinueAfterFailure(success) == FALSE

\* process_queue, lines 168-172: a failed workflow halts the queue
HaltsQueue(success) == ~success

AfterPassAlwaysLeaves ==
    /\ zte_pc' = "done"
    /\ zte_exit' = 0

\* main, lines 206-216, after a pass that did not fail: leave in single-pass
\* mode, else wait for the next scan
AfterPass ==
    IF once_mode
    THEN /\ zte_pc' = "done"
         /\ zte_exit' = 0
    ELSE /\ zte_pc' = "wait"
         /\ zte_exit' = zte_exit

\* main, lines 190-200: the scan that starts a pass
ZteScan ==
    /\ ZteFrame
    /\ zte_pc = "scan"
    /\ ~zte_shutdown_requested
    /\ \E list_ok \in BOOLEAN, fetch_ok \in [ ZteFetches -> BOOLEAN ] :
         LET found == FindQualifyingIssues(list_ok, fetch_ok)
         IN /\ queue' = found
            /\ queue_pos' = 1
            /\ pass_results' = << >>
            /\ IF found = << >>
               THEN AfterPass
               ELSE /\ zte_pc' = "process"
                    /\ zte_exit' = zte_exit
    /\ UNCHANGED << completed_issues, zte_shutdown_requested, once_mode, trackerVars >>

\* process_queue, lines 160-174: one iteration of the loop with
\* run_zte_workflow, and what main does when process_queue returns
ZteProcess ==
    /\ ZteFrame
    /\ zte_pc = "process"
    /\ IF zte_shutdown_requested
       THEN /\ AfterPass
            /\ UNCHANGED << completed_issues, queue_pos, pass_results >>
       ELSE \E success \in BOOLEAN :
              /\ completed_issues' = MarkCompleted(completed_issues, queue[queue_pos])
              /\ pass_results' = Append(pass_results,
                                        [ issue |-> queue[queue_pos], ok |-> success ])
              /\ queue_pos' = queue_pos + 1
              /\ IF HaltsQueue(success)
                 THEN /\ zte_pc' = "exited"
                      /\ zte_exit' = 1
                 ELSE IF queue_pos = Len(queue)
                      THEN AfterPass
                      ELSE /\ zte_pc' = "process"
                           /\ zte_exit' = zte_exit
    /\ UNCHANGED << zte_shutdown_requested, once_mode, queue, trackerVars >>

\* main, lines 212-216 and 190: the poll interval passes
ZteWait ==
    /\ ZteFrame
    /\ zte_pc = "wait"
    /\ ~zte_shutdown_requested
    /\ zte_pc' = "scan"
    /\ UNCHANGED << completed_issues, zte_shutdown_requested, once_mode, queue,
                    queue_pos, pass_results, zte_exit, trackerVars >>

\* main, lines 190 and 218: the loop ends once shutdown was requested
ZteStop ==
    /\ ZteFrame
    /\ zte_pc \in { "scan", "wait" }
    /\ zte_shutdown_requested
    /\ zte_pc' = "done"
    /\ zte_exit' = 0
    /\ UNCHANGED << completed_issues, zte_shutdown_requested, once_mode, queue,
                    queue_pos, pass_results, trackerVars >>

\* signal_handler, lines 70-74
ZteSignal ==
    /\ ZteFrame
    /\ zte_pc \in { "scan", "process", "wait" }
    /\ ~zte_shutdown_requested
    /\ zte_shutdown_requested' = TRUE
    /\ UNCHANGED << completed_issues, once_mode, zte_pc, queue, queue_pos,
                    pass_results, zte_exit, trackerVars >>

ZteNext ==
    \/ ZteScan
    \/ ZteProcess
    \/ ZteWait
    \/ ZteStop
    \/ ZteSignal
    \/ PostComment

\* ------------------------------------------------------------------------
\* Specifications
\* ------------------------------------------------------------------------
ZteIdle ==
    /\ completed_issues = {}
    /\ zte_shutdown_requested = FALSE
    /\ once_mode = FALSE
    /\ zte_pc = "off"
    /\ queue = << >>
    /\ queue_pos = 1
    /\ pass_results = << >>
    /\ zte_exit = NoExit

\* ------------------------------------------------------------------------
\* Filesystem watcher (adw_triggers/trigger_transcript_watch.py)
\* ------------------------------------------------------------------------
MaxMtime == 2

WATCHED_EXTENSIONS == { ".md", ".pdf" }

F_A == "a.md"
F_B == "b.pdf"
F_README == "README.md"
F_HIDDEN == ".draft.md"
F_TXT == "notes.txt"
FolderFiles == { F_A, F_B, F_README, F_HIDDEN, F_TXT }

\* the suffix folder.glob("*" + ext) matches on
Suffix(name) ==
    CASE name \in { F_A, F_README, F_HIDDEN } -> ".md"
      [] name = F_B -> ".pdf"
      [] OTHER -> ".txt"

\* filepath.name.startswith(".")
StartsWithDot(name) == name = F_HIDDEN

\* folder.glob("*" + ext): the files present (mtime 0: no such file)
Glob(ext) == { f \in FolderFiles : file_mtime[f] > 0 /\ Suffix(f) = ext }

\* the files check_transcript_folder passes to is_processed, lines 152-157
Candidates ==
    { f \in UNION { Glob(ext) : ext \in WATCHED_EXTENSIONS } :
        ~StartsWithDot(f) /\ f # "README.md" }

\* the files that can ever be candidates
Transcripts == { F_A, F_B }

IsProcessedNever(f) == FALSE

\* is_processed, lines 107-122
IsProcessed(f) ==
    IF processed_log[f] = 0 THEN FALSE
    ELSE processed_log[f] = file_mtime[f]

MarkNothing(f) == processed_log

\* mark_processed, lines 125-137: the entry of the file is (over)written with
\* the file's mtime at this moment (the log file is readable and writable, so
\* load_processed_log returns what save_processed_log wrote)
MarkProcessed(f) == [ processed_log EXCEPT ![f] = file_mtime[f] ]

\* no run can start more pipelines than there are (file, mtime) pairs; the cap
\* only stops a watcher that would redispatch for ever
DispatchCap == 2 * MaxMtime + 1

\* no scan in progress
NothingSeen == [ f \in FolderFiles |-> 0 ]

WatchInit ==
    /\ folder_exists \in BOOLEAN
    /\ file_mtime \in { m \in [ FolderFiles -> 0..1 ] :
                          /\ ~folder_exists => \A f \in FolderFiles : m[f] = 0
                          /\ folder_exists => \A f \in FolderFiles \ Transcripts : m[f] = 1 }
    /\ processed_log \in { l \in [ FolderFiles -> 0..1 ] :
                             \A f \in FolderFiles \ Transcripts : l[f] = 0 }
    /\ watch_shutdown_requested = FALSE
    /\ watch_once \in BOOLEAN
    /\ watch_pc = "idle"
    /\ new_files = << >>
    /\ dispatched = << >>
    /\ pipeline_status = [ f \in FolderFiles |-> "none" ]
    /\ watch_last_skipped = {}
    /\ seen_mtime = NothingSeen

WatchIdle ==
    /\ folder_exists = FALSE
    /\ file_mtime = [ f \in FolderFiles |-> 0 ]
    /\ processed_log = [ f \in FolderFiles |-> 0 ]
    /\ watch_shutdown_requested = FALSE
    /\ watch_once = FALSE
    /\ watch_pc = "off"
    /\ new_files = << >>
    /\ dispatched = << >>
    /\ pipeline_status = [ f \in FolderFiles |-> "none" ]
    /\ watch_last_skipped = {}
    /\ seen_mtime = NothingSeen

\* main, lines 264-279: after a check, --once returns, otherwise the loop waits
\* for the next scheduled check
AfterCheck == IF watch_once THEN "exited" ELSE "idle"

\* check_transcript_folder, lines 140-166: create the folder if missing, else
\* collect the files that are not processed
WatchScan ==
    /\ WatchFrame
    /\ watch_pc = "idle"
    /\ ~watch_shutdown_requested
    /\ IF ~folder_exists
       THEN /\ folder_exists' = TRUE
            /\ new_files' = << >>
            /\ watch_last_skipped' = {}
            /\ seen_mtime' = NothingSeen
            /\ watch_pc' = AfterCheck
       ELSE /\ folder_exists' = folder_exists
            /\ new_files' \in Orderings({ f \in Candidates : ~IsProcessed(f) })
            /\ watch_last_skipped' =
                 { [ file |-> f, pipeline |-> pipeline_status[f] ] :
                     f \in { g \in Candidates : IsProcessed(g) } }
            /\ seen_mtime' = [ f \in FolderFiles |->
                                IF f \in Candidates /\ ~IsProcessed(f) THEN file_mtime[f]
                                ELSE 0 ]
            /\ watch_pc' = IF new_files' = << >> THEN AfterCheck ELSE "triggering"
    /\ UNCHANGED << file_mtime, processed_log, watch_shutdown_requested, watch_once,
                    dispatched, pipeline_status >>

\* lines 168-172 with trigger_pipeline, lines 175-218, for the next new file:
\* the pipeline process is started and the file is marked, or (script missing,
\* Popen raised) nothing is started and nothing is marked
WatchTrigger(spawn_ok) ==
    /\ WatchFrame
    /\ watch_pc = "triggering"
    /\ ~watch_shutdown_requested
    /\ new_files # << >>
    /\ LET f == Head(new_files)
       IN /\ IF spawn_ok
             THEN /\ Len(dispatched) < DispatchCap
                  /\ dispatched' = Append(dispatched, [ file |-> f, mtime |-> file_mtime[f] ])
                  /\ pipeline_status' = [ pipeline_status EXCEPT ![f] = "running" ]
                  /\ processed_log' = MarkProcessed(f)
             ELSE UNCHANGED << dispatched, pipeline_status, processed_log >>
          /\ new_files' = Tail(new_files)
          /\ seen_mtime' = [ seen_mtime EXCEPT ![f] = 0 ]
          /\ watch_pc' = IF Tail(new_files) = << >> THEN AfterCheck ELSE "triggering"
    /\ UNCHANGED << folder_exists, file_mtime, watch_shutdown_requested, watch_once,
                    watch_last_skipped >>

\* lines 169-171: shutdown requested, the remaining new files are left
WatchBreak ==
    /\ WatchFrame
    /\ watch_pc = "triggering"
    /\ watch_shutdown_requested
    /\ new_files' = << >>
    /\ seen_mtime' = NothingSeen
    /\ watch_pc' = AfterCheck
    /\ UNCHANGED << folder_exists, file_mtime, processed_log, watch_shutdown_requested,
                    watch_once, dispatched, pipeline_status, watch_last_skipped >>

\* signal_handler, lines 62-66
WatchSignal ==
    /\ WatchFrame
    /\ watch_pc \in { "idle", "triggering" }
    /\ ~watch_shutdown_requested
    /\ watch_shutdown_requested' = TRUE
    /\ UNCHANGED << folder_exists, file_mtime, processed_log, watch_once, watch_pc,
                    new_files, dispatched, pipeline_status, watch_last_skipped,
                    seen_mtime >>

\* main, lines 277-281: the polling loop ends
WatchStop ==
    /\ WatchFrame
    /\ watch_pc = "idle"
    /\ watch_shutdown_requested
    /\ watch_pc' = "exited"
    /\ UNCHANGED << folder_exists, file_mtime, processed_log, watch_shutdown_requested,
                    watch_once, new_files, dispatched, pipeline_status,
                    watch_last_skipped, seen_mtime >>

\* somebody writes a transcript into the folder, or rewrites one: its mtime moves on
ModifyFile ==
    /\ WatchFrame
    /\ watch_pc # "off"
    /\ folder_exists
    /\ \E f \in Transcripts :
         /\ file_mtime[f] < MaxMtime
         /\ file_mtime' = [ file_mtime EXCEPT ![f] = @ + 1 ]
    /\ UNCHANGED << folder_exists, processed_log, watch_shutdown_requested, watch_once,
                    watch_pc, new_files, dispatched, pipeline_status,
                    watch_last_skipped, seen_mtime >>

\* a pipeline process started at line 200 ends, with or without success; the
\* watcher keeps no handle on it
PipelineExits ==
    /\ WatchFrame
    /\ \E f \in Transcripts, how \in { "succeeded", "failed" } :
         /\ pipeline_status[f] = "running"
         /\ pipeline_status' = [ pipeline_status EXCEPT ![f] = how ]
    /\ UNCHANGED << folder_exists, file_mtime, processed_log, watch_shutdown_requested,
                    watch_once, watch_pc, new_files, dispatched, watch_last_skipped, seen_mtime >>

\* the watcher and the writers of its folder
WatcherNext ==
    \/ WatchScan
    \/ \E spawn_ok \in BOOLEAN : WatchTrigger(spawn_ok)
    \/ WatchBreak
    \/ WatchSignal
    \/ WatchStop
    \/ ModifyFile

WatchNext ==
    \/ WatcherNext
    \/ PipelineExits

\* ------------------------------------------------------------------------
\* Test runner (adw_test.py): main from "Starting test suite" (line 1295) on.
\* The tracker calls made on the way (make_issue_comment, fetch_issue) succeed.
\* ------------------------------------------------------------------------
MAX_TEST_RETRY_ATTEMPTS == 4
MAX_E2E_TEST_RETRY_ATTEMPTS == 2
MAX_API_TEST_RETRY_ATTEMPTS == 2

MaxFailing == 1
MaxE2eFiles == 2

\* the test cases a layer can report as failed
Cases == 1..MaxFailing

\* the single failed TestResult a layer makes up when its agent could not be
\* run ("static_analysis_execution", "server_startup", "api_test_execution")
SyntheticFailure == { 0 }

\* entries of test_log: one execution of a layer (ok: the agent ran; cases: the
\* failed results), or one resolver round (cases: one resolver call per case;
\* fixed: the calls that reported success)
Run(layer, ok, failing) ==
    [ layer |-> layer, kind |-> "run", ok |-> ok, cases |-> failing, fixed |-> {} ]
Resolve(layer, failing, resolved) ==
    [ layer |-> layer, kind |-> "resolve", ok |-> resolved # {}, cases |-> failing,
      fixed |-> resolved ]

\* log_test_results has not been called
NoSummary == [ overall |-> "none" ]

TestInit ==
    /\ skip_static \in BOOLEAN
    /\ skip_api \in BOOLEAN
    /\ skip_e2e \in BOOLEAN
    /\ e2e_test_files \in 0..MaxE2eFiles
    /\ test_pc = "static"
    /\ test_log = << >>
    /\ static_failed = 0
    /\ failed_count = 0
    /\ api_failed_count = 0
    /\ e2e_failed_count = 0
    /\ test_attempt = 0
    /\ e2e_results = << >>
    /\ test_exit = NoExit
    /\ test_summary = NoSummary
    /\ parse_failed = {}
    /\ payload_faults = FALSE

TestIdle ==
    /\ skip_static = FALSE
    /\ skip_api = FALSE
    /\ skip_e2e = FALSE
    /\ e2e_test_files = 0
    /\ test_pc = "off"
    /\ test_log = << >>
    /\ static_failed = 0
    /\ failed_count = 0
    /\ api_failed_count = 0
    /\ e2e_failed_count = 0
    /\ test_attempt = 0
    /\ e2e_results = << >>
    /\ test_exit = NoExit
    /\ test_summary = NoSummary
    /\ parse_failed = {}
    /\ payload_faults = FALSE

\* a run of every layer (no --skip flag, end-to-end files present) whose
\* agents can answer with a payload that does not parse
ParseInit ==
    /\ skip_static = FALSE
    /\ skip_api = FALSE
    /\ skip_e2e = FALSE
    /\ e2e_test_files \in 1..MaxE2eFiles
    /\ test_pc = "static"
    /\ test_log = << >>
    /\ static_failed = 0
    /\ failed_count = 0
    /\ api_failed_count = 0
    /\ e2e_failed_count = 0
    /\ test_attempt = 0
    /\ e2e_results = << >>
    /\ test_exit = NoExit
    /\ test_summary = NoSummary
    /\ parse_failed = {}
    /\ payload_faults = TRUE

ParseTestResultsAsFailure(parsable, failing) ==
    IF parsable THEN failing ELSE SyntheticFailure

\* parse_test_results, lines 326-340: the failed results read from the agent's
\* payload, none when parse_json raises
ParseTestResults(parsable, failing) == IF parsable THEN failing ELSE {}

\* execute_single_e2e_test, lines 939-984: whether the result of one file is
\* "passed"; a payload that does not parse gives a result with status "failed"
E2eResultPassed(parsable, passes) == parsable /\ passes

\* test_log positions with a parse error, after an execution logged next
NoteParseError(failed_to_parse) ==
    IF failed_to_parse THEN parse_failed \cup { Len(test_log) + 1 } ELSE parse_failed

\* lines 1303-1336 with run_static_analysis_tests, lines 785-825
TestStatic ==
    /\ TestFrame
    /\ test_pc = "static"
    /\ IF skip_static
       THEN /\ static_failed' = 0
            /\ test_log' = test_log
            /\ parse_failed' = parse_failed
       ELSE \E response_ok, parsable \in BOOLEAN, failing \in SUBSET Cases :
              /\ ~(response_ok /\ parsable) => failing = {}
              /\ ~response_ok => parsable
              /\ ~payload_faults => parsable
              /\ LET failed == IF response_ok THEN ParseTestResults(parsable, failing)
                               ELSE SyntheticFailure
                 IN /\ static_failed' = Cardinality(failed)
                    /\ test_log' = Append(test_log, Run("static", response_ok, failed))
                    /\ parse_failed' = NoteParseError(~parsable)
    /\ test_pc' = "unit"
    /\ UNCHANGED << payload_faults, skip_static, skip_api, skip_e2e, e2e_test_files, failed_count,
                    api_failed_count, e2e_failed_count, test_attempt, e2e_results,
                    test_exit,
                    test_summary >>

\* line 1339: the unit layer runs only after a clean static analysis
RunsUnit == static_failed = 0

RunsApiAfterUnitFailure == static_failed = 0 /\ ~skip_api

\* lines 1391-1403: the API layer runs after clean static analysis and unit
\* layers, unless --skip-api
RunsApi == static_failed = 0 /\ failed_count = 0 /\ ~skip_api

\* lines 1428-1457: the end-to-end layer runs after three clean layers, unless
\* --skip-e2e
RunsE2e ==
    static_failed = 0 /\ failed_count = 0 /\ api_failed_count = 0 /\ ~skip_e2e

\* "while attempt < max_attempts", lines 482 and 1124
WhileCondition(cur_attempt, max_attempts) == cur_attempt < max_attempts

IsLastAttemptNever(cur_attempt, max_attempts) == FALSE

\* "if attempt == max_attempts: break", lines 511 and 1143
IsLastAttempt(cur_attempt, max_attempts) == cur_attempt = max_attempts

FailedTestsNone(failing) == {}

\* "failed_tests = [test for test in results if not test.passed]", lines 527
\* and 1161: what is handed to the resolvers, one call each
FailedTests(failing) == failing

ResolvedAlways(resolved) == TRUE

\* "if resolved > 0", lines 535 and 1169
ResolvedSomething(resolved) == resolved # {}

\* lines 1339-1357: static analysis failed, the unit layer is not run
TestUnitSkipped ==
    /\ TestFrame
    /\ test_pc = "unit"
    /\ ~RunsUnit
    /\ failed_count' = 0
    /\ test_pc' = "api"
    /\ UNCHANGED << payload_faults, skip_static, skip_api, skip_e2e, e2e_test_files, test_log,
                    static_failed, api_failed_count, e2e_failed_count, test_attempt,
                    e2e_results, test_exit, test_summary, parse_failed >>

\* one pass through the body of the loop of run_tests_with_resolution,
\* lines 482-556: run the tests, then resolve the failed ones (resolve_failed_tests,
\* lines 393-463: one resolver per failed test) and go round again, or leave
TestUnitAttempt ==
    /\ TestFrame
    /\ test_pc = "unit"
    /\ RunsUnit
    /\ LET cur_attempt == test_attempt + 1
           max_attempts == MAX_TEST_RETRY_ATTEMPTS
           Leave == test_pc' = "api" /\ test_attempt' = 0
           Again == test_pc' = "unit" /\ test_attempt' = cur_attempt
       IN \/ \* lines 490-500: run_tests itself failed; failed_count keeps its value
             /\ test_log' = Append(test_log, Run("unit", FALSE, {}))
             /\ failed_count' = failed_count
             /\ parse_failed' = parse_failed
             /\ Leave
          \/ \E parsable \in BOOLEAN, reported \in SUBSET Cases :
              LET failing == ParseTestResults(parsable, reported)
              IN
               /\ ~parsable => reported = {}
               /\ ~payload_faults => parsable
               /\ parse_failed' = NoteParseError(~parsable)
               /\ failed_count' = Cardinality(failing)
               /\ IF failing = {} \/ IsLastAttempt(cur_attempt, max_attempts)
                  THEN /\ test_log' = Append(test_log, Run("unit", TRUE, failing))
                       /\ Leave
                  ELSE \E resolved \in SUBSET failing :
                         /\ test_log' = test_log \o
                              << Run("unit", TRUE, failing),
                                 Resolve("unit", FailedTests(failing), resolved) >>
                         /\ IF ResolvedSomething(resolved)
                               /\ WhileCondition(cur_attempt, max_attempts)
                            THEN Again
                            ELSE Leave
    /\ UNCHANGED << payload_faults, skip_static, skip_api, skip_e2e, e2e_test_files, static_failed,
                    api_failed_count, e2e_failed_count, e2e_results, test_exit,
                    test_summary >>

\* lines 1385-1425 with run_api_integration_tests, lines 666-742: the layer is
\* run once (no changed route, server not started, agent error: ok is FALSE
\* with the made-up failure, or no failure for "no route changed")
TestApi ==
    /\ TestFrame
    /\ test_pc = "api"
    /\ IF ~RunsApi
       THEN /\ api_failed_count' = 0
            /\ test_log' = test_log
            /\ parse_failed' = parse_failed
       ELSE \E response_ok, parsable \in BOOLEAN, failing \in SUBSET Cases :
              /\ ~(response_ok /\ parsable) => failing = {}
              /\ ~response_ok => parsable
              /\ ~payload_faults => parsable
              /\ LET failed == IF response_ok THEN ParseTestResults(parsable, failing)
                               ELSE SyntheticFailure
                 IN /\ api_failed_count' = Cardinality(failed)
                    /\ test_log' = Append(test_log, Run("api", response_ok, failed))
                    /\ parse_failed' = NoteParseError(~parsable)
    /\ test_pc' = "e2e"
    /\ UNCHANGED << payload_faults, skip_static, skip_api, skip_e2e, e2e_test_files, static_failed,
                    failed_count, e2e_failed_count, test_attempt, e2e_results,
                    test_exit,
                    test_summary >>

RunAllE2eTests(outcome) == outcome

RECURSIVE RunE2eTests(_)
\* run_e2e_tests, lines 883-898: outcome[k] tells whether file k would pass;
\* the files are run in order and the loop breaks after the first failed one
RunE2eTests(outcome) ==
    IF outcome = << >> THEN << >>
    ELSE IF ~Head(outcome) THEN << FALSE >>
         ELSE << TRUE >> \o RunE2eTests(Tail(outcome))

\* lines 1428-1456: the end-to-end layer is not run
TestE2eSkipped ==
    /\ TestFrame
    /\ test_pc = "e2e"
    /\ ~RunsE2e
    /\ e2e_failed_count' = 0
    /\ e2e_results' = << >>
    /\ test_pc' = "finish"
    /\ UNCHANGED << payload_faults, skip_static, skip_api, skip_e2e, e2e_test_files, test_log,
                    static_failed, failed_count, api_failed_count, test_attempt,
                    test_exit, test_summary, parse_failed >>

\* one pass through the body of the loop of run_e2e_tests_with_resolution,
\* lines 1124-1194
TestE2eAttempt ==
    /\ TestFrame
    /\ test_pc = "e2e"
    /\ RunsE2e
    /\ LET cur_attempt == test_attempt + 1
           max_attempts == MAX_E2E_TEST_RETRY_ATTEMPTS
           Leave == test_pc' = "finish" /\ test_attempt' = 0
           Again == test_pc' = "e2e" /\ test_attempt' = cur_attempt
       IN \E outcome, parsable \in [ 1..e2e_test_files -> BOOLEAN ] :
            LET results == RunE2eTests([ k \in 1..e2e_test_files |->
                                           E2eResultPassed(parsable[k], outcome[k]) ])
                failing == { k \in 1..Len(results) : ~results[k] }
            IN /\ \A k \in 1..e2e_test_files :
                    /\ ~parsable[k] => ~outcome[k]
                    /\ ~payload_faults => parsable[k]
                    /\ k > Len(results) => parsable[k] /\ outcome[k]
               /\ parse_failed' = NoteParseError(\E k \in 1..Len(results) : ~parsable[k])
               /\ e2e_results' = results
               /\ IF results = << >>
                  THEN \* lines 1131-1133: no result, the counts keep their value
                       /\ e2e_failed_count' = e2e_failed_count
                       /\ test_log' = Append(test_log, Run("e2e", TRUE, {}))
                       /\ Leave
                  ELSE /\ e2e_failed_count' = Cardinality(failing)
                       /\ IF failing = {} \/ IsLastAttempt(cur_attempt, max_attempts)
                          THEN /\ test_log' = Append(test_log, Run("e2e", TRUE, failing))
                               /\ Leave
                          ELSE \E resolved \in SUBSET failing :
                                 /\ test_log' = test_log \o
                                      << Run("e2e", TRUE, failing),
                                         Resolve("e2e", FailedTests(failing), resolved) >>
                                 /\ IF ResolvedSomething(resolved)
                                       /\ WhileCondition(cur_attempt, max_attempts)
                                    THEN Again
                                    ELSE Leave
    /\ UNCHANGED << payload_faults, skip_static, skip_api, skip_e2e, e2e_test_files, static_failed,
                    failed_count, api_failed_count, test_exit,
                    test_summary >>

\* log_test_results, lines 213-300, as called at line 1523 with static_results,
\* results and e2e_results: the failed count of each section (a section left
\* out for want of results counts zero) and the overall status line
LogTestResults(static_n, unit_n, e2e_n) ==
    LET total_failures == static_n + unit_n + e2e_n
    IN [ failed |-> [ static |-> static_n, unit |-> unit_n, e2e |-> e2e_n ],
         overall |-> IF total_failures > 0 THEN "FAILED" ELSE "PASSED" ]

\* lines 1488-1569: commit, push, report, and the exit code
TestFinish ==
    /\ TestFrame
    /\ test_pc = "finish"
    /\ LET total_failures ==
             static_failed + failed_count + api_failed_count + e2e_failed_count
       IN test_exit' = IF total_failures > 0 THEN 1 ELSE 0
    /\ test_summary' = LogTestResults(static_failed, failed_count, e2e_failed_count)
    /\ test_pc' = "exited"
    /\ UNCHANGED << payload_faults, skip_static, skip_api, skip_e2e, e2e_test_files, test_log,
                    static_failed, failed_count, api_failed_count, e2e_failed_count,
                    test_attempt, e2e_results, parse_failed >>

TestNext ==
    \/ TestStatic
    \/ TestUnitSkipped
    \/ TestUnitAttempt
    \/ TestApi
    \/ TestE2eSkipped
    \/ TestE2eAttempt
    \/ TestFinish

\* ------------------------------------------------------------------------
\* One pipeline run and its run record: the orchestrator
\* (adw_requirements_pipeline_iso.py) and the stage processes it starts
\* (adw_transcript_to_prd_iso.py, adw_prd_to_prompts_iso.py,
\* adw_prompts_to_issues_iso.py), each holding its own in-memory copy of the
\* record. ADWState, ensure_adw_id, validate_worktree and create_worktree
\* (adw_modules) follow the specification of the state store and of the
\* worktree manager.
\* ------------------------------------------------------------------------
ORCH == "adw_requirements_pipeline_iso"
STAGE1 == "adw_transcript_to_prd_iso"
STAGE2 == "adw_prd_to_prompts_iso"
STAGE3 == "adw_prompts_to_issues_iso"

StageName(n) == CASE n = 1 -> STAGE1 [] n = 2 -> STAGE2 [] OTHER -> STAGE3

B_TRANSCRIPT == "transcript-prd-<id>"
B_PROMPTS == "feat-adw-<id>-prd-to-prompts"
B_ISSUES == "pipeline-prompts-to-issues-<id>"

\* the branch name a stage puts in the record
StageBranch(n) == CASE n = 1 -> B_TRANSCRIPT [] n = 2 -> B_PROMPTS [] OTHER -> B_ISSUES

WORKTREE == "trees/<id>"
P_DET == "ports from the hash of <id>"
P_ALT == "next available ports"
PRD_FILE == "ai_docs/prds/prd-<id>-<slug>.md"
PROMPTS_FILE == "ai_docs/<slug>-implementation-prompts.md"
ISSUES == "12"

\* a record as ensure(id) initializes it
NewRecord ==
    [ all_adws |-> << >>, branch_name |-> None, worktree_path |-> None,
      ports |-> None, plan_file |-> None, prompts_file |-> None,
      created_issues |-> None ]

\* the record a stand-alone run of stage 1 left behind
Stage1Record ==
    [ NewRecord EXCEPT !.all_adws = << STAGE1 >>, !.branch_name = B_TRANSCRIPT,
                       !.worktree_path = WORKTREE, !.ports = P_DET,
                       !.plan_file = PRD_FILE ]

\* the record a stand-alone run of stage 2 left behind
Stage2Record ==
    [ NewRecord EXCEPT !.all_adws = << STAGE2 >>, !.branch_name = B_PROMPTS,
                       !.worktree_path = WORKTREE, !.ports = P_ALT,
                       !.prompts_file = PROMPTS_FILE ]

\* append_history(stage_name): pushes onto the ordered history
AppendAdwId(rec, name) == [ rec EXCEPT !.all_adws = Append(@, name) ]

\* validate(run_id, record): the record's worktree path exists on disk
ValidateWorktree(rec, exists) == rec.worktree_path # None /\ exists

\* allocate_ports: the deterministic pair, or the next free one when a port
\* of the pair is taken
AllocatePorts(available) == IF available THEN P_DET ELSE P_ALT

\* create(run_id, branch_name): an error for an existing worktree and on any
\* git failure
CreateFails(exists, git_ok) == exists \/ ~git_ok

\* the orchestrator's record after lines 104-115: ensure, load, append
OrchStart(rec) == AppendAdwId(rec, ORCH)

StageStartTakesOtherPorts(n, rec) ==
    LET r == AppendAdwId(rec, StageName(n))
    IN IF n = 1
       THEN [ r EXCEPT !.branch_name = B_TRANSCRIPT,
                       !.ports = IF @ = P_DET THEN P_ALT ELSE P_DET ]
       ELSE r

\* a stage's record after its start: ensure, load, append and, in stage 1,
\* the branch name
StageStart(n, rec) ==
    LET r == AppendAdwId(rec, StageName(n))
    IN IF n = 1 THEN [ r EXCEPT !.branch_name = B_TRANSCRIPT ] ELSE r

\* stage 1 saves at the end of its start, stages 2 and 3 do not
StageStartSaves(n) == n = 1

\* the record fields a stage's worktree branch sets before create_worktree
BeforeCreate(n, rec, available) ==
    LET r == [ rec EXCEPT !.ports = AllocatePorts(available) ]
    IN IF n = 1 THEN r ELSE [ r EXCEPT !.branch_name = StageBranch(n) ]

\* the artifact a stage, or the orchestrator after it, puts in its record
WithArtifact(n, rec) ==
    CASE n = 1 -> [ rec EXCEPT !.plan_file = PRD_FILE ]
      [] n = 2 -> [ rec EXCEPT !.prompts_file = PROMPTS_FILE ]
      [] OTHER -> [ rec EXCEPT !.created_issues = ISSUES ]

RunInit ==
    /\ run_pc = "orch_start"
    /\ run_stage = 0
    /\ run_skip \in BOOLEAN
    /\ \E rec \in { NewRecord, Stage1Record, Stage2Record }, exists \in BOOLEAN :
         /\ (rec = NewRecord => ~exists)
         /\ disk = rec
         /\ run_hist0 = rec.all_adws
         /\ worktree_exists = exists
    /\ orch_mem = NewRecord
    /\ stage_mem = NewRecord
    /\ stage_ok = FALSE
    /\ run_creates = 0
    /\ run_invoked = << >>

RunIdle ==
    /\ run_pc = "off"
    /\ run_stage = 0
    /\ run_skip = FALSE
    /\ disk = NewRecord
    /\ run_hist0 = << >>
    /\ worktree_exists = FALSE
    /\ orch_mem = NewRecord
    /\ stage_mem = NewRecord
    /\ stage_ok = FALSE
    /\ run_creates = 0
    /\ run_invoked = << >>

\* orchestrator, lines 104-115: ensure_adw_id, load, append_adw_id, save
RunOrchStart ==
    /\ run_pc = "orch_start"
    /\ RunFrame
    /\ orch_mem' = OrchStart(disk)
    /\ disk' = orch_mem'
    /\ run_invoked' = Append(run_invoked, ORCH)
    /\ run_stage' = 1
    /\ run_pc' = "stage_start"
    /\ UNCHANGED << run_skip, run_hist0, worktree_exists, stage_mem, stage_ok, run_creates >>

\* a stage process from its first line to the save that ends its start
\* (stage 1: lines 87-133, stage 2: 88-137, stage 3: 80-125)
RunStageStart ==
    /\ run_pc = "stage_start"
    /\ RunFrame
    /\ \E input_ok \in BOOLEAN :
         IF input_ok
         THEN /\ stage_mem' = StageStart(run_stage, disk)
              /\ disk' = IF StageStartSaves(run_stage) THEN stage_mem' ELSE disk
              /\ run_invoked' = Append(run_invoked, StageName(run_stage))
              /\ run_pc' = "stage_worktree"
              /\ stage_ok' = stage_ok
         ELSE /\ stage_ok' = FALSE
              /\ run_pc' = "orch_after"
              /\ UNCHANGED << stage_mem, disk, run_invoked >>
    /\ UNCHANGED << run_stage, run_skip, run_hist0, worktree_exists, orch_mem, run_creates >>

\* the worktree branch of a stage (stage 1: lines 135-163, stage 2: 139-195,
\* stage 3: 129-166)
RunStageWorktree ==
    /\ run_pc = "stage_worktree"
    /\ RunFrame
    /\ IF ValidateWorktree(stage_mem, worktree_exists)
       THEN /\ run_pc' = "stage_work"
            /\ UNCHANGED << stage_mem, disk, worktree_exists, run_creates, stage_ok >>
       ELSE \E available \in BOOLEAN, git_ok \in BOOLEAN, install_ok \in BOOLEAN :
              LET before == BeforeCreate(run_stage, stage_mem, available)
                  created == [ before EXCEPT !.worktree_path = WORKTREE ]
              IN /\ run_creates' = run_creates + 1
                 /\ IF CreateFails(worktree_exists, git_ok)
                    THEN /\ stage_mem' = before
                         /\ disk' = before
                         /\ worktree_exists' = worktree_exists
                         /\ stage_ok' = FALSE
                         /\ run_pc' = "orch_after"
                    ELSE /\ stage_mem' = created
                         /\ disk' = created
                         /\ worktree_exists' = TRUE
                         /\ IF run_stage = 2 /\ ~install_ok
                            THEN stage_ok' = FALSE /\ run_pc' = "orch_after"
                            ELSE stage_ok' = stage_ok /\ run_pc' = "stage_work"
    /\ UNCHANGED << run_stage, run_skip, run_hist0, orch_mem, run_invoked >>

\* the rest of a stage (stage 1: lines 165-255, stage 2: 197-271,
\* stage 3: 168-282)
RunStageWork ==
    /\ run_pc = "stage_work"
    /\ RunFrame
    /\ \E agent_ok \in BOOLEAN, git_ok \in BOOLEAN :
         LET done == WithArtifact(run_stage, stage_mem)
         IN IF ~agent_ok
            THEN /\ stage_ok' = FALSE
                 /\ stage_mem' = stage_mem
                 /\ disk' = IF run_stage = 3 THEN stage_mem ELSE disk
            ELSE /\ stage_mem' = done
                 /\ disk' = done
                 /\ stage_ok' = (run_stage = 3 \/ git_ok)
    /\ run_pc' = "orch_after"
    /\ UNCHANGED << run_stage, run_skip, run_hist0, worktree_exists, orch_mem,
                    run_creates, run_invoked >>

\* orchestrator, after a stage process ended (lines 166-183, 215-232, 265-280)
RunOrchAfter ==
    /\ run_pc = "orch_after"
    /\ RunFrame
    /\ IF ~stage_ok
       THEN /\ orch_mem' = orch_mem
            /\ run_pc' = "exited"
            /\ run_stage' = run_stage
       ELSE /\ orch_mem' = WithArtifact(run_stage, orch_mem)
            /\ IF run_stage = 3 \/ (run_stage = 2 /\ run_skip)
               THEN run_pc' = "merge" /\ run_stage' = run_stage
               ELSE run_pc' = "stage_start" /\ run_stage' = run_stage + 1
    /\ disk' = orch_mem'
    /\ UNCHANGED << run_skip, run_hist0, worktree_exists, stage_mem, stage_ok,
                    run_creates, run_invoked >>

\* orchestrator, lines 285-326: merge and summary; the record is not written
RunFinish ==
    /\ run_pc = "merge"
    /\ RunFrame
    /\ run_pc' = "done"
    /\ UNCHANGED << run_stage, run_skip, disk, run_hist0, worktree_exists, orch_mem,
                    stage_mem, stage_ok, run_creates, run_invoked >>

RunNext ==
    \/ RunOrchStart
    \/ RunStageStart
    \/ RunStageWorktree
    \/ RunStageWork
    \/ RunOrchAfter
    \/ RunFinish

\* ------------------------------------------------------------------------
\* Starting a program again on an existing run id: the orchestrator
\* (lines 104-115) or a stage (stage 1: lines 107-133, stage 2: 118-130,
\* stage 3: 104-118)
\* ------------------------------------------------------------------------
MaxStarts == 2

\* the programs: 0 is the orchestrator, 1..3 the stages
Programs == 0..3

\* records that an earlier run of any of the programs can have left on disk
ExistingRecords ==
    [ all_adws : { << >>, << ORCH >> },
      branch_name : { None, B_TRANSCRIPT, B_PROMPTS, B_ISSUES },
      worktree_path : { None, WORKTREE },
      ports : { None, P_DET, P_ALT },
      plan_file : { None },
      prompts_file : { None },
      created_issues : { None } ]

\* what the program holds after its start
StartedRecord(prog, rec) == IF prog = 0 THEN OrchStart(rec) ELSE StageStart(prog, rec)

\* the start ends with state.save
StartSaves(prog) == prog = 0 \/ StageStartSaves(prog)

StartInit ==
    /\ start_prog \in Programs
    /\ start_disk \in ExistingRecords
    /\ start_seen = << >>

StartIdle ==
    /\ start_prog = 0
    /\ start_disk = NewRecord
    /\ start_seen = << >>

\* one start of the program with the same run id
StartProgram ==
    /\ Len(start_seen) < MaxStarts
    /\ StartFrame
    /\ LET mem == StartedRecord(start_prog, start_disk)
       IN /\ start_disk' = IF StartSaves(start_prog) THEN mem ELSE start_disk
          /\ start_seen' = Append(start_seen, mem)
    /\ UNCHANGED start_prog

StartNext == StartProgram

\* ------------------------------------------------------------------------
\* The processed-file log as a file (adw_triggers/trigger_transcript_watch.py,
\* load_processed_log, save_processed_log, mark_processed): its content on
\* disk across writes, a kill of the watcher during a write, and restarts
\* ------------------------------------------------------------------------
MaxMarks == 3

\* no entry for any file
NoEntries == [ f \in Transcripts |-> 0 ]

\* PROCESSED_LOG does not exist
MissingFile == [ kind |-> "missing", entries |-> NoEntries ]

\* PROCESSED_LOG holds what json.dump wrote for the entries
JsonFile(entries) == [ kind |-> "json", entries |-> entries ]

\* PROCESSED_LOG just after open(PROCESSED_LOG, "w"), or with part of a dump:
\* not a JSON document
TruncatedFile == [ kind |-> "truncated", entries |-> NoEntries ]

\* load_processed_log, lines 69-84: the entries of the file, or none when the
\* file is missing or json.load raises
LoadProcessedLog(file) == IF file.kind = "json" THEN file.entries ELSE NoEntries

\* the keys present in a set of entries
KeysOf(entries) == { f \in Transcripts : entries[f] # 0 }

LogInit ==
    /\ log_file \in { MissingFile }
                    \cup { JsonFile(l) : l \in [ Transcripts -> 0..MaxMtime ] }
    /\ log_pc = "idle"
    /\ log_data = NoEntries
    /\ log_written = KeysOf(log_file.entries)
    /\ log_marks = 0

LogIdle ==
    /\ log_file = MissingFile
    /\ log_pc = "off"
    /\ log_data = NoEntries
    /\ log_written = {}
    /\ log_marks = 0

\* mark_processed, lines 125-136, and save_processed_log up to line 90: the
\* log is loaded, the entry set, and the file opened for writing
LogMarkOpen ==
    /\ LogFrame
    /\ log_pc = "idle"
    /\ log_marks < MaxMarks
    /\ log_marks' = log_marks + 1
    /\ \E f \in Transcripts, mtime \in 1..MaxMtime :
         log_data' = [ LoadProcessedLog(log_file) EXCEPT ![f] = mtime ]
    /\ log_file' = TruncatedFile
    /\ log_pc' = "writing"
    /\ UNCHANGED log_written

\* save_processed_log, line 91: json.dump ran and the file was closed
LogMarkDump ==
    /\ LogFrame
    /\ log_pc = "writing"
    /\ log_file' = JsonFile(log_data)
    /\ log_written' = log_written \cup KeysOf(log_data)
    /\ log_pc' = "idle"
    /\ UNCHANGED << log_data, log_marks >>

\* the watcher process is killed: between two calls, or during the write,
\* where the file keeps what had reached the disk (nothing or part of the
\* dump, or all of it)
LogCrash ==
    /\ LogFrame
    /\ log_pc \in { "idle", "writing" }
    /\ IF log_pc = "writing"
       THEN \E all_written \in BOOLEAN :
              /\ log_file' = IF all_written THEN JsonFile(log_data) ELSE TruncatedFile
              /\ log_written' = IF all_written THEN log_written \cup KeysOf(log_data)
                                ELSE log_written
       ELSE UNCHANGED << log_file, log_written >>
    /\ log_pc' = "down"
    /\ log_data' = NoEntries
    /\ UNCHANGED log_marks

\* the watcher is started again
LogRestart ==
    /\ LogFrame
    /\ log_pc = "down"
    /\ log_pc' = "idle"
    /\ UNCHANGED << log_file, log_data, log_written, log_marks >>

LogNext ==
    \/ LogMarkOpen
    \/ LogMarkDump
    \/ LogCrash
    \/ LogRestart

\* ------------------------------------------------------------------------
\* Specifications
\* ------------------------------------------------------------------------
InitPipeline ==
    PipeInit /\ RetryIdle /\ TrackerIdle /\ CronIdle /\ ZteIdle /\ WatchIdle /\ TestIdle /\ RunIdle /\ StartIdle /\ LogIdle
NextPipeline == PipeNext
InitRetry ==
    RetryInit /\ PipeIdle /\ TrackerIdle /\ CronIdle /\ ZteIdle /\ WatchIdle /\ TestIdle /\ RunIdle /\ StartIdle /\ LogIdle
NextRetry == RetryNext
SpecRetry == InitRetry /\ [][NextRetry]_vars
InitCron ==
    CronInit /\ PipeIdle /\ RetryIdle /\ ZteIdle /\ WatchIdle /\ TestIdle /\ RunIdle /\ StartIdle /\ LogIdle
NextCron == CronNext
SpecCron == InitCron /\ [][NextCron]_vars
InitZte ==
    ZteInit /\ PipeIdle /\ RetryIdle /\ CronIdle /\ WatchIdle /\ TestIdle /\ RunIdle /\ StartIdle /\ LogIdle
NextZte == ZteNext
SpecZte == InitZte /\ [][NextZte]_vars
\* one dispatcher process of either kind, from its start to its end, on a
\* tracker that lists the open issues by ascending number
InitDispatcher ==
    /\ \/ CronInit /\ ZteIdle
       \/ ZteInit /\ CronIdle
    /\ open_issues = Sorted(open_issues)
    /\ PipeIdle /\ RetryIdle /\ WatchIdle /\ TestIdle /\ RunIdle /\ StartIdle /\ LogIdle
NextDispatcher ==
    \/ CronCheck
    \/ CronDispatch
    \/ WorkflowExits
    \/ CronSignal
    \/ CronStop
    \/ ZteScan
    \/ ZteProcess
    \/ ZteWait
    \/ ZteStop
    \/ ZteSignal
    \/ PostComment
SpecDispatcher == InitDispatcher /\ [][NextDispatcher]_vars
SpecPipeline == InitPipeline /\ [][NextPipeline]_vars
InitWatch ==
    WatchInit /\ PipeIdle /\ RetryIdle /\ TrackerIdle /\ CronIdle /\ ZteIdle /\ TestIdle /\ RunIdle /\ StartIdle /\ LogIdle
NextWatch == WatchNext
SpecWatch == InitWatch /\ [][NextWatch]_vars
\* the watcher alone (it holds no handle on the pipelines it started and reads
\* nothing they write), under a scheduler that runs a due check and a spawn
\* that, tried again and again, does not fail for ever
NextWatcher == WatcherNext
SpecWatcherFair ==
    /\ InitWatch
    /\ [][NextWatcher]_vars
    /\ WF_vars(WatchScan)
    /\ SF_vars(WatchTrigger(TRUE))
    /\ WF_vars(WatchBreak)
    /\ WF_vars(WatchStop)
InitTest ==
    TestInit /\ PipeIdle /\ RetryIdle /\ TrackerIdle /\ CronIdle /\ ZteIdle /\ WatchIdle /\ RunIdle /\ StartIdle /\ LogIdle
NextTest == TestNext
SpecTest == InitTest /\ [][NextTest]_vars
InitParse ==
    ParseInit /\ PipeIdle /\ RetryIdle /\ TrackerIdle /\ CronIdle /\ ZteIdle /\ WatchIdle /\ RunIdle /\ StartIdle /\ LogIdle
NextParse == TestNext
SpecParse == InitParse /\ [][NextParse]_vars
InitRun ==
    RunInit /\ PipeIdle /\ RetryIdle /\ TrackerIdle /\ CronIdle /\ ZteIdle /\ WatchIdle /\ TestIdle /\ StartIdle /\ LogIdle
NextRun == RunNext
SpecRun == InitRun /\ [][NextRun]_vars
InitStart ==
    StartInit /\ PipeIdle /\ RetryIdle /\ TrackerIdle /\ CronIdle /\ ZteIdle /\ WatchIdle /\ TestIdle /\ RunIdle /\ LogIdle
NextStart == StartNext
SpecStart == InitStart /\ [][NextStart]_vars
InitLog ==
    LogInit /\ PipeIdle /\ RetryIdle /\ TrackerIdle /\ CronIdle /\ ZteIdle /\ WatchIdle /\ TestIdle /\ RunIdle /\ StartIdle
NextLog == LogNext
SpecLog == InitLog /\ [][NextLog]_vars

\* ---- claims about the pipeline orchestrator ----

InvokedInOrder == \A i \in 1..Len(invoked) : invoked[i] = i

LastStageExitedNonzero == invoked # << >> /\ stage_rc # 0

\* C1: stages are invoked in the order 1, 2, 3; once a stage process has exited
\* nonzero the orchestrator has exited with a nonzero code, without attempting
\* the merge, and no further stage is invoked.
C1_FailFast ==
    /\ [](InvokedInOrder)
    /\ [](LastStageExitedNonzero =>
            /\ pipe_pc = "exited"
            /\ pipe_exit # NoExit /\ pipe_exit # 0
            /\ attempts_merge = 0)
    /\ [][LastStageExitedNonzero => invoked' = invoked]_vars

\* stage 1 succeeded, stage 2 exited nonzero, the orchestrator is gone
C1_Witness ==
    /\ invoked = << 1, 2 >>
    /\ stage_rc # 0
    /\ pipe_pc = "exited"
    /\ pipe_exit = 1

\* the code's pattern finds a marker "SUCCESS: <label> at <path>" in the output
NoPathFound(out, prefix) == ParseSuccessPath(out, prefix) \in { None, "" }

HasMarker(out) ==
    \E prefix \in { PRD_PREFIX, PROMPTS_PREFIX } : ~NoPathFound(out, prefix)

LastStageExitedZeroWithoutMarker ==
    invoked # << >> /\ stage_rc = 0 /\ ~HasMarker(stage_stdout)

StageFailureHandled ==
    /\ pipe_pc = "exited"
    /\ pipe_exit # NoExit /\ pipe_exit # 0
    /\ attempts_merge = 0

LastStage == invoked[Len(invoked)]

StagePrefix(n) == IF n = 1 THEN PRD_PREFIX ELSE PROMPTS_PREFIX

RetryableFailure(o) ==
    \/ o.kind = "completed" /\ o.rc # 0 /\ o.stderr \in { E_DIAL, E_TLS }
    \/ o.kind = "TimeoutExpired"

Succeeded(fn, o) ==
    o.kind = "completed" /\ o.rc = 0 /\ (fn = "fetch_issue" => o.parses)

Finished == gh_status \in { "returned", "exited", "raised" }

\* C3: in fetch_issue and make_issue_comment, when attempts 1..k-1 fail
\* retryably and attempt k succeeds, the sleeps are exactly 2^1, ..., 2^(k-1) in
\* that order and the result is attempt k's; a call that ends in failure has
\* not slept after its final attempt.
C3_BackoffSchedule ==
    gh_fn \in RetryFns =>
      /\ ( /\ gh_status = "returned"
           /\ \A i \in 1..(Len(outcomes) - 1) : RetryableFailure(outcomes[i]) )
         => ( /\ Len(outcomes) <= max_retries
              /\ Len(sleeps) = Len(outcomes) - 1
              /\ \A i \in 1..Len(sleeps) : sleeps[i] = Pow2(i)
              /\ gh_fn = "fetch_issue" => gh_result = outcomes[Len(outcomes)].payload )
      /\ gh_status \in { "exited", "raised" } => Len(sleeps) = Len(outcomes) - 1

\* fetch_issue failed twice on the network, slept 2s then 4s, and returned the
\* third attempt's issue
C3_Witness ==
    /\ gh_fn = "fetch_issue"
    /\ gh_status = "returned"
    /\ Len(outcomes) = 3
    /\ RetryableFailure(outcomes[1]) /\ RetryableFailure(outcomes[2])
    /\ sleeps = << 2, 4 >>
    /\ gh_result = outcomes[3].payload

\* attempt i was followed by another attempt (or is about to be)
Retried(i) == i < Len(outcomes) \/ (i = Len(outcomes) /\ gh_status = "running")

\* C4 as claimed: in fetch_issue and make_issue_comment a failed attempt is
\* retried if and only if it is a retryable failure (and attempts remain); any
\* other failure ends the call on that attempt.
C4_RetryIffRetryable ==
    gh_fn \in RetryFns =>
      \A i \in 1..Len(outcomes) :
        ~Succeeded(gh_fn, outcomes[i]) =>
          ( Retried(i) <=> (RetryableFailure(outcomes[i]) /\ i < max_retries) )

\* C5: when every attempt failed retryably the command ran exactly max_retries
\* times; fetch_issue then ended the process with a nonzero exit code, while
\* make_issue_comment raised RuntimeError to its caller, whose process lives on.
C5_Exhaustion ==
    ( /\ gh_fn \in RetryFns
      /\ Finished
      /\ \A i \in 1..Len(outcomes) : RetryableFailure(outcomes[i]) )
    => /\ Len(calls) = max_retries
       /\ \A i \in 1..Len(calls) : calls[i] = Command(gh_fn)
       /\ gh_fn = "fetch_issue" =>
            (gh_status = "exited" /\ gh_exit # NoExit /\ gh_exit # 0)
       /\ gh_fn = "make_issue_comment" =>
            (gh_status = "raised" /\ gh_result = "RuntimeError" /\ gh_exit = NoExit)

\* make_issue_comment timed out on each of its three attempts and raised
C5_Witness ==
    /\ gh_fn = "make_issue_comment"
    /\ max_retries = 3
    /\ Len(calls) = 3
    /\ \A i \in 1..3 : RetryableFailure(outcomes[i])
    /\ gh_status = "raised"
    /\ gh_result = "RuntimeError"

\* the call of attempt i is made again later in the same function call
Reattempted(i) == \E j \in (i + 1)..Len(calls) : calls[j] = calls[i]

BotTriggerTexts == { T_BOT_RUN }
\* the texts that hold the trigger keyword (in any case)
TriggerTexts == { T_RUN, T_BOT_RUN, I_RUN }

\* the trigger keyword occurs in issue i only inside bot comments
OnlyBotTriggers(i) ==
    /\ issue_body[i] \notin TriggerTexts
    /\ \A c \in comments[i] : c.body \in TriggerTexts => c.body \in BotTriggerTexts

\* C7 as claimed: a comment holding both "[ADW-AGENTS]" and the trigger keyword
\* never makes an issue qualify or a run be dispatched: not in the concurrent
\* dispatcher (should_process_issue), not in the sequential processor
\* (has_adw_run), not in find_keyword_from_comment.
C7_BotCommentNeverTriggers ==
    /\ \A k \in 1..Len(spawned) :
         spawned[k].by = "comment" => spawned[k].text \notin BotTriggerTexts
    /\ \A k \in 1..Len(new_qualifying_issues) :
         new_qualifying_issues[k].by = "comment"
           => new_qualifying_issues[k].text \notin BotTriggerTexts
    /\ \A i \in TrackerIssues :
         OnlyBotTriggers(i) => ~HasAdwRun(i, FetchIssueComments(i, TRUE))
    /\ \A i \in TrackerIssues :
         FindKeywordFromComment("adw_run", comments[i]).body \notin BotTriggerTexts

SameFingerprint(a, b) == a.issue = b.issue /\ a.by = b.by /\ a.id = b.id

\* C8: over the whole life of the concurrent dispatcher no two workflow
\* processes are spawned for the same trigger occurrence (issue and latest
\* comment id, or issue and body trigger).
C8_NoDoubleDispatch ==
    \A k \in 1..Len(spawned), l \in 1..Len(spawned) :
      k < l => ~SameFingerprint(spawned[k], spawned[l])

\* an issue was dispatched on its body trigger, and a later cycle listed it
\* again, trigger still present, and left it alone
C8_Witness ==
    \E i \in last_skipped :
      /\ issue_body[i] \in TriggerTexts
      /\ Cardinality({ k \in 1..Len(spawned) : spawned[k].issue = i }) = 1
      /\ cron_pc = "idle"

\* C9: in one pass of the sequential processor the workflows run in strictly
\* ascending issue-number order, whatever order the tracker listed the issues in.
C9_AscendingOrder ==
    /\ \A k \in 1..Len(pass_results), l \in 1..Len(pass_results) :
         k < l => pass_results[k].issue < pass_results[l].issue
    /\ \A k \in 1..Len(pass_results) : pass_results[k].issue = queue[k]

\* the tracker listed 42, 7, 100 and the pass ran 7, 42, 100
C9_Witness ==
    /\ open_issues = << 42, 7, 100 >>
    /\ Len(pass_results) = 3
    /\ pass_results[1].issue = 7
    /\ pass_results[2].issue = 42
    /\ pass_results[3].issue = 100

LoggedUnchanged(f) == processed_log[f] # 0 /\ processed_log[f] = file_mtime[f]

\* the step starts a pipeline process for f
Dispatches(f) ==
    /\ Len(dispatched') = Len(dispatched) + 1
    /\ dispatched'[Len(dispatched')].file = f

DispatchedAt(f, m) == \E k \in 1..Len(dispatched) : dispatched[k] = [ file |-> f, mtime |-> m ]

WatcherStopping == watch_shutdown_requested \/ watch_pc = "exited"

LayerRank(layer) ==
    CASE layer = "static" -> 0
      [] layer = "unit" -> 1
      [] layer = "api" -> 2
      [] layer = "e2e" -> 3

\* positions of test_log that are executions of the layer
RunsOf(layer) ==
    { k \in 1..Len(test_log) : test_log[k].kind = "run" /\ test_log[k].layer = layer }

\* positions of test_log that belong to the layer (executions and resolver rounds)
EventsOf(layer) == { k \in 1..Len(test_log) : test_log[k].layer = layer }

\* C13: the layers are executed in the order static analysis, unit, API,
\* end-to-end, and once a layer has ended with a failure count above zero no
\* later layer is executed.
C13_LayerGating ==
    /\ \A k \in 1..Len(test_log), l \in 1..Len(test_log) :
         k < l => LayerRank(test_log[k].layer) <= LayerRank(test_log[l].layer)
    /\ static_failed > 0 => RunsOf("unit") \cup RunsOf("api") \cup RunsOf("e2e") = {}
    /\ failed_count > 0 => RunsOf("api") \cup RunsOf("e2e") = {}
    /\ api_failed_count > 0 => RunsOf("e2e") = {}

\* static analysis was clean, the unit layer ended with a failure, and the run
\* is over without the API and end-to-end layers, which no flag had skipped
C13_Witness ==
    /\ test_pc = "exited"
    /\ ~skip_api /\ ~skip_e2e
    /\ RunsOf("static") # {} /\ static_failed = 0
    /\ RunsOf("unit") # {} /\ failed_count > 0
    /\ RunsOf("api") \cup RunsOf("e2e") = {}

PcRank(pc) ==
    CASE pc = "static" -> 0
      [] pc = "unit" -> 1
      [] pc = "api" -> 2
      [] pc = "e2e" -> 3
      [] OTHER -> 4

\* main has left the layer
LayerOver(layer) == test_pc # "off" /\ PcRank(test_pc) > LayerRank(layer)

LoopLayers == { "unit", "e2e" }

MaxAttemptsOf(layer) ==
    IF layer = "unit" THEN MAX_TEST_RETRY_ATTEMPTS ELSE MAX_E2E_TEST_RETRY_ATTEMPTS

FinalCountOf(layer) == IF layer = "unit" THEN failed_count ELSE e2e_failed_count

ResolveRoundsOf(layer) == EventsOf(layer) \ RunsOf(layer)

\* every execution of the layer reported the same single failing case
SingleCaseNeverFixed(layer) ==
    /\ RunsOf(layer) # {}
    /\ \A k \in RunsOf(layer), l \in RunsOf(layer) :
         /\ test_log[k].ok
         /\ Cardinality(test_log[k].cases) = 1
         /\ test_log[k].cases = test_log[l].cases

LastEventIsRun(layer) ==
    \A k \in EventsOf(layer) :
      (\A l \in EventsOf(layer) : l <= k) => test_log[k].kind = "run"

\* C14 as claimed: a resolution loop whose single failing case is never fixed
\* executes the layer exactly max_attempts times and returns the failure, and
\* no loop executes its layer more than max_attempts times.
C14_Original ==
    \A layer \in LoopLayers :
      /\ Cardinality(RunsOf(layer)) <= MaxAttemptsOf(layer)
      /\ (LayerOver(layer) /\ SingleCaseNeverFixed(layer))
           => /\ Cardinality(RunsOf(layer)) = MaxAttemptsOf(layer)
              /\ FinalCountOf(layer) > 0

\* C14, amended: no loop executes its layer more than max_attempts times; a
\* loop whose single failing case is never fixed returns the failure; it
\* executes the layer exactly max_attempts times, ending on an execution, when
\* every resolver round reported a case resolved; and it stops short of
\* max_attempts, right after the round, when a resolver round reported none.
C14_BoundedResolution ==
    \A layer \in LoopLayers :
      /\ Cardinality(RunsOf(layer)) <= MaxAttemptsOf(layer)
      /\ (LayerOver(layer) /\ SingleCaseNeverFixed(layer))
           => /\ FinalCountOf(layer) > 0
              /\ IF \A k \in ResolveRoundsOf(layer) : test_log[k].fixed # {}
                 THEN /\ Cardinality(RunsOf(layer)) = MaxAttemptsOf(layer)
                      /\ LastEventIsRun(layer)
                 ELSE /\ Cardinality(RunsOf(layer)) < MaxAttemptsOf(layer)
                      /\ ~LastEventIsRun(layer)

\* the unit layer failed the same case on each of its four executions, the
\* three resolver rounds in between each reported it resolved
C14_Witness ==
    /\ LayerOver("unit")
    /\ SingleCaseNeverFixed("unit")
    /\ Cardinality(RunsOf("unit")) = MAX_TEST_RETRY_ATTEMPTS
    /\ Cardinality(ResolveRoundsOf("unit")) = MAX_TEST_RETRY_ATTEMPTS - 1
    /\ failed_count = 1

TestedLayers == { "unit", "api", "e2e" }

RetryBudgetOf(layer) ==
    CASE layer = "unit" -> MAX_TEST_RETRY_ATTEMPTS
      [] layer = "api" -> MAX_API_TEST_RETRY_ATTEMPTS
      [] layer = "e2e" -> MAX_E2E_TEST_RETRY_ATTEMPTS

\* the number of executions of the layer among the first k entries of test_log
RunsUpTo(layer, k) == Cardinality({ l \in RunsOf(layer) : l <= k })

\* entry k is an execution of the layer that ended with failures while attempts
\* remained; it is followed by a resolver round with one call per failing case
ResolverRoundFollows(layer, k) ==
    (/\ k \in RunsOf(layer)
     /\ test_log[k].cases # {}
     /\ RunsUpTo(layer, k) < RetryBudgetOf(layer))
      => /\ k < Len(test_log)
         /\ test_log[k + 1].kind = "resolve"
         /\ test_log[k + 1].layer = layer
         /\ test_log[k + 1].cases = test_log[k].cases

\* entry k is a resolver round of the layer that reported a case resolved; the
\* layer is executed again (the loop is at its next pass, or has made it)
LayerRunsAgain(layer, k) ==
    (/\ k \in ResolveRoundsOf(layer)
     /\ test_log[k].fixed # {})
      => IF k = Len(test_log)
         THEN test_pc = layer
         ELSE test_log[k + 1].kind = "run" /\ test_log[k + 1].layer = layer

RerunResolvedNothing(layer, k) ==
    /\ k > 2
    /\ k \in RunsOf(layer)
    /\ k - 1 \in ResolveRoundsOf(layer)
    /\ k - 2 \in RunsOf(layer)
    /\ test_log[k].cases # {}
    /\ test_log[k].cases = test_log[k - 2].cases

NothingOfLayerAfter(layer, k) == \A l \in EventsOf(layer) : l <= k

\* C16 as claimed: when a re-run after a resolver round resolves nothing, the
\* loop stops there, with no further resolver round or execution, even though
\* attempts remain.
C16_Original ==
    \A layer \in LoopLayers : \A k \in 1..Len(test_log) :
      (RerunResolvedNothing(layer, k) /\ RunsUpTo(layer, k) < MaxAttemptsOf(layer))
        => NothingOfLayerAfter(layer, k)

\* C16, amended: when a resolver round reports no case resolved, the loop stops
\* at once: the layer is not executed again and no further resolver round is
\* invoked, even though attempts remain.
C16_StopsWhenNothingResolved ==
    \A layer \in LoopLayers : \A k \in ResolveRoundsOf(layer) :
      test_log[k].fixed = {}
        => /\ NothingOfLayerAfter(layer, k)
           /\ LayerOver(layer)
           /\ RunsUpTo(layer, k) < MaxAttemptsOf(layer)

\* the unit layer failed a case on its first execution, the resolver round
\* reported nothing resolved, and the loop was left after that one execution
C16_Witness ==
    /\ LayerOver("unit")
    /\ Cardinality(RunsOf("unit")) = 1
    /\ \E k \in ResolveRoundsOf("unit") :
         test_log[k] = Resolve("unit", { 1 }, {}) /\ test_log[k - 1] = Run("unit", TRUE, { 1 })

AllLayers == { "static", "unit", "api", "e2e" }

\* the layer was executed and its last execution could not be run or reported
\* a failed case
EndedWithFailures(layer) ==
    \E k \in RunsOf(layer) :
      /\ \A l \in RunsOf(layer) : l <= k
      /\ (~test_log[k].ok \/ test_log[k].cases # {})

\* C17 as claimed: adw_test exits nonzero if and only if at least one executed
\* layer ended with failures; when every executed layer ended with zero
\* failures it exits 0.
C17_ExitCodeIffFailures ==
    test_pc = "exited"
      => (test_exit # 0 <=> \E layer \in AllLayers : EndedWithFailures(layer))

\* C18: within one attempt of the end-to-end layer the files are run in order
\* and the attempt stops at the first failing one: the result list has at most
\* one failed result, it is the last element, and no more results than files.
C18_E2eStopsAtFirstFailure ==
    /\ Len(e2e_results) <= e2e_test_files
    /\ \A k \in 1..Len(e2e_results) : ~e2e_results[k] => k = Len(e2e_results)

\* two test files; the first failed and the second was not run
C18_Witness ==
    /\ e2e_test_files = 2
    /\ e2e_results = << FALSE >>
    /\ \E k \in RunsOf("e2e") : test_log[k].cases = { 1 }

\* ---- claims about the end of a pipeline run ----

RequiredStages == IF skip_issues THEN << 1, 2 >> ELSE << 1, 2, 3 >>

\* every required stage ran and the last of them succeeded
FinalStageSucceeded ==
    /\ invoked = RequiredStages
    /\ stage_rc = 0
    /\ (Len(invoked) = 2 => ParseSuccessPath(stage_stdout, PROMPTS_PREFIX) \notin { None, "" })

\* C19: after the final required stage succeeded the orchestrator attempts the
\* merge (once, and only then); if the merge fails the run is not failed: the
\* next and only step is the summary, which reports the merge as FAILED, and
\* the orchestrator exits with code 0.
C19_MergeFailureNonFatal ==
    /\ [](FinalStageSucceeded => pipe_pc \in { "merge", "summary", "done" })
    /\ [](attempts_merge > 0 => (FinalStageSucceeded /\ attempts_merge = 1))
    /\ [](merge_status = "FAILED" =>
            /\ attempts_merge = 1
            /\ pipe_pc \in { "summary", "done" }
            /\ pipe_exit \in { NoExit, 0 }
            /\ (pipe_pc = "done" <=> pipe_exit = 0))
    /\ [][(merge_status = "FAILED" /\ pipe_pc = "summary") =>
            (pipe_pc' = "done" /\ pipe_exit' = 0 /\ merge_status' = "FAILED")]_vars

\* the merge failed, the summary was printed and the run ended with code 0
C19_Witness ==
    /\ attempts_merge = 1
    /\ merge_status = "FAILED"
    /\ pipe_pc = "done"
    /\ pipe_exit = 0

\* the orchestrator left through a stage-failure path (an exit on bad
\* arguments comes before any stage is invoked)
StageFailureExit == pipe_pc = "exited" /\ invoked # << >>

FailedStage == invoked[Len(invoked)]

\* C20: on every stage-failure exit the failed stage's stdout log exists, its
\* stderr log exists when the stage wrote to stderr, the run record was saved
\* on the way out (one save at start-up, one per succeeded stage, one for the
\* failure), and the saved record holds the artifact path of every stage that
\* had succeeded: plan_file after stage 1, prompts_file after stage 2.
C20_FailurePathPersists ==
    /\ [](StageFailureExit =>
            /\ pipe_exit = 1
            /\ << FailedStage, "stdout" >> \in logs
            /\ (stage_stderr => << FailedStage, "stderr" >> \in logs)
            /\ state_saves = Len(invoked) + 1
            /\ (FailedStage > 1 =>
                  (saved_state.plan_file = prd_path /\ prd_path \notin { None, "" }))
            /\ (FailedStage > 2 =>
                  (saved_state.prompts_file = prompts_path
                     /\ prompts_path \notin { None, "" })))
    /\ [][(pipe_pc # "exited" /\ pipe_pc' = "exited" /\ invoked' # << >>) =>
            (state_saves' = state_saves + 1 /\ saved_state' = state_data')]_vars

\* stage 2 failed after writing to stderr; both of its logs exist and the
\* saved record holds the PRD path of stage 1
C20_Witness ==
    /\ StageFailureExit
    /\ FailedStage = 2
    /\ stage_stderr
    /\ { << 2, "stdout" >>, << 2, "stderr" >> } \subseteq logs
    /\ saved_state.plan_file = "specs/prd.md"
    /\ saved_state.prompts_file = None

\* ---- claims about the run record and the worktree of a pipeline run ----

IsPrefix(s, t) == Len(s) <= Len(t) /\ \A i \in 1..Len(s) : s[i] = t[i]

\* C21: the history of the run record on disk is append-only across a pipeline
\* run: no save removes an entry persisted before it, and when the run is over
\* the history on disk lists, after what it held before the run, the
\* orchestrator and every stage process that touched the run, in invocation
\* order.
C21_HistoryAppendOnly ==
    /\ [][IsPrefix(disk.all_adws, disk'.all_adws)]_vars
    /\ [](run_pc \in { "done", "exited" } => disk.all_adws = run_hist0 \o run_invoked)

\* C22: within one orchestrator run create_worktree is called at most once.
C22_WorktreeCreatedOnce == run_creates <= 1

\* the worktree path, branch name and port pair of a record
Referenced(rec) == << rec.worktree_path, rec.branch_name, rec.ports >>

BotTexts == { T_BOT_RUN, T_BOT_DONE }

\* the comments of issue i that do not carry the bot marker
UserComments(i) == { c \in comments[i] : c.body \notin BotTexts }

\* the trigger keyword occurs in the body of issue i or in its most recent
\* comment that is not a bot comment
KeywordInBodyOrLatestUserComment(i) ==
    \/ issue_body[i] \in TriggerTexts
    \/ \E c \in UserComments(i) :
         /\ \A d \in UserComments(i) : d.id <= c.id
         /\ c.body \in TriggerTexts

\* the dispatcher has not handled issue i before
NotYetHandled(i) == i \notin processed_issues /\ issue_last_comment[i] = 0

\* C24 as claimed: both dispatchers qualify an open issue exactly when the
\* trigger keyword occurs in its body or in its most recent non-bot comment
\* (the concurrent dispatcher: an issue it has not handled before).
C24_QualifyOnBodyOrLatestUserComment ==
    \A i \in SeqRange(open_issues) :
      /\ NotYetHandled(i) =>
           ((ShouldProcessIssue(i, FetchIssueComments(i, TRUE)) # NoTrigger)
              <=> KeywordInBodyOrLatestUserComment(i))
      /\ HasAdwRun(i, FetchIssueComments(i, TRUE)) <=> KeywordInBodyOrLatestUserComment(i)

\* ---- claims about posted comments ----

BotMarkerFirst(text) == Len(text) > 0 /\ text[1] = "[ADW-AGENTS]"

\* C25: every comment body make_issue_comment sends starts with the bot
\* marker: a message without the prefix is sent with the marker and a space
\* put before it, a message that starts with the marker is sent unchanged.
C25_BotPrefix ==
    \A k \in 1..Len(sent_bodies) :
      /\ BotMarkerFirst(sent_bodies[k])
      /\ (BotMarkerFirst(comment_arg) => sent_bodies[k] = comment_arg)
      /\ (~BotMarkerFirst(comment_arg)
            => sent_bodies[k] = << "[ADW-AGENTS]", " " >> \o comment_arg)

\* a message that starts with the marker was sent twice (one retry), unchanged
C25_Witness ==
    /\ gh_fn = "make_issue_comment"
    /\ comment_arg = << "[ADW-AGENTS]", "done" >>
    /\ Len(sent_bodies) = 2
    /\ sent_bodies[2] = comment_arg

\* a step of the concurrent dispatcher that is a poll cycle: taken between
\* cycles without a shutdown request, and neither a process ending, a signal
\* nor a new comment
PollCycleStep ==
    /\ cron_pc = "idle"
    /\ ~shutdown_requested
    /\ ~shutdown_requested'
    /\ comments' = comments
    /\ \A i \in TrackerIssues :
         ~(running_workflows[i] = "running" /\ running_workflows'[i] = "finished")

\* C26: every poll cycle that is not skipped for shutdown removes from the
\* registry exactly the handles whose process has exited, logging the exit
\* status of each, and keeps every handle still running; no step at all removes
\* a running handle
C26_ReapExitedKeepRunning ==
    [][ /\ \A i \in TrackerIssues :
             running_workflows[i] = "running" => running_workflows'[i] # "none"
        /\ PollCycleStep =>
             /\ \A i \in TrackerIssues :
                  /\ running_workflows[i] = "finished" =>
                       /\ running_workflows'[i] = "none"
                       /\ \E l \in reap_log' :
                            /\ l.issue = i
                            /\ l.level = (IF l.retcode = 0 THEN "INFO" ELSE "WARNING")
                  /\ running_workflows[i] = "running" => running_workflows'[i] = "running"
             /\ \A l \in reap_log' : running_workflows[l.issue] = "finished"
      ]_vars

C26_Witness ==
    \E i, j \in CronIssues :
        /\ i # j
        /\ running_workflows[i] = "running"
        /\ running_workflows[j] = "none"
        /\ j \in processed_issues
        /\ reap_log = { [ issue |-> j, level |-> "WARNING", retcode |-> 1 ] }

\* the failed count a layer ended with
FinalFailed(layer) ==
    CASE layer = "static" -> static_failed
      [] layer = "unit" -> failed_count
      [] layer = "api" -> api_failed_count
      [] layer = "e2e" -> e2e_failed_count

\* C27 as claimed: the combined summary adw_test posts at its end covers every
\* executed layer (static analysis, unit, API integration, end-to-end) with the
\* failed count the layer ended with, so that a failure in any executed layer
\* shows in the summary and in its overall status.
C27_SummaryCoversEveryLayer ==
    test_pc = "exited" =>
      \A layer \in AllLayers :
        RunsOf(layer) # {} =>
          /\ layer \in DOMAIN test_summary.failed
          /\ test_summary.failed[layer] = FinalFailed(layer)
          /\ FinalFailed(layer) > 0 => test_summary.overall = "FAILED"

\* the layers that read their agent's payload with parse_test_results
ListLayers == { "static", "unit", "api" }

\* every execution so far either had an unparsable payload or ran and
\* reported no failed case
OnlyParseErrorsOrClean ==
    \A k \in 1..Len(test_log) :
      test_log[k].kind = "run" =>
        k \in parse_failed \/ (test_log[k].ok /\ test_log[k].cases = {})

\* C28 as claimed: in every test layer an agent payload that cannot be parsed
\* counts as an empty result set (zero failed) and never by itself makes a
\* failed result or a nonzero exit code.
C28_Original ==
    /\ \A k \in parse_failed : test_log[k].ok /\ test_log[k].cases = {}
    /\ (test_pc = "exited" /\ OnlyParseErrorsOrClean) => test_exit = 0

\* C28: in the static, unit and API layers an unparsable payload counts as an
\* empty result set and a run whose executions were all clean or unparsable
\* there exits 0; in the end-to-end layer an unparsable payload is a failed
\* result of its file, and adw_test exits nonzero when the last end-to-end
\* attempt had one.
C28_ParseErrorsByLayer ==
    /\ \A k \in parse_failed :
         /\ test_log[k].kind = "run"
         /\ test_log[k].ok
         /\ test_log[k].layer \in ListLayers => test_log[k].cases = {}
         /\ test_log[k].layer = "e2e" =>
              /\ test_log[k].cases # {}
              /\ (test_pc = "exited" /\ \A l \in RunsOf("e2e") : l <= k) => test_exit = 1
    /\ ( /\ test_pc = "exited"
         /\ OnlyParseErrorsOrClean
         /\ \A k \in parse_failed : test_log[k].layer \in ListLayers )
       => test_exit = 0

\* static analysis and the unit layer both answered with an unparsable
\* payload and counted as clean; the end-to-end layer then got an unparsable
\* payload for its first file, and the run exited 1
C28_Witness ==
    /\ test_pc = "exited"
    /\ test_exit = 1
    /\ \E k \in parse_failed : test_log[k].layer = "static"
    /\ \E k \in parse_failed : test_log[k].layer = "unit"
    /\ \E k \in parse_failed : test_log[k].layer = "e2e" /\ test_log[k].cases = { 1 }
    /\ static_failed = 0 /\ failed_count = 0 /\ api_failed_count = 0

RECURSIVE KindsOf(_)
\* the kinds of the lines of a sequence of printed result lines
KindsOf(lines) ==
    IF lines = << >> THEN << >> ELSE << Head(lines).kind >> \o KindsOf(Tail(lines))

\* the order C29 gives for the result lines of a run
ExpectedKinds(skip) ==
    << "prd", "prompts" >> \o (IF skip THEN << >> ELSE << "issues" >>)
                           \o << "merge", "summary" >>

\* C29: the orchestrator prints its result lines in the order PRD line, prompts
\* line, created-issues list (none with --skip-issues), merge result, combined
\* summary, never a later one before an earlier one; a run that completes has
\* printed all of them, and its summary, the last, names the run id, the PRD
\* path, the prompts path and the merge status.
C29_EventOrder ==
    /\ IsPrefix(KindsOf(emitted), ExpectedKinds(skip_issues))
    /\ pipe_pc = "done" =>
         /\ KindsOf(emitted) = ExpectedKinds(skip_issues)
         /\ emitted[1].path = prd_path /\ prd_path # None
         /\ emitted[2].path = prompts_path /\ prompts_path # None
         /\ ~skip_issues => emitted[3].issues = created_issues
         /\ LET last == emitted[Len(emitted)]
                merge == emitted[Len(emitted) - 1]
            IN /\ merge.status \in { "MERGED", "FAILED" }
               /\ last.adw_id = "a1b2c3d4"
               /\ last.prd = prd_path
               /\ last.prompts = prompts_path
               /\ last.merge = merge.status

\* a completed run with stage 3: five result lines, issues found, merge failed
C29_Witness ==
    /\ pipe_pc = "done"
    /\ ~skip_issues
    /\ Len(emitted) = 5
    /\ emitted[3].kind = "issues" /\ emitted[3].issues # << >>
    /\ emitted[4] = [ kind |-> "merge", status |-> "FAILED" ]
    /\ emitted[5].kind = "summary" /\ emitted[5].merge = "FAILED"

\* C30 as claimed: the processed-file log on disk never loses a key: once a
\* write has put a file's key in the log, the log on disk holds that key in
\* every later state outside a write in progress, whatever marks, restarts or
\* kills during a write came in between.
C30_LogKeysAppendOnly ==
    log_pc \in { "idle", "down" } =>
      \A f \in log_written : log_file.kind = "json" /\ log_file.entries[f] # 0

\* C31: once a signal has set shutdown_requested the concurrent dispatcher
\* starts no poll cycle (nothing is reaped, listed or qualified) and no
\* dispatch (nothing is spawned or marked processed), and when it stops it
\* leaves the handles of the workflows it spawned as they are: a running
\* workflow keeps running until it ends by itself.
C31_ShutdownStopsDispatching ==
    [][ shutdown_requested =>
          /\ shutdown_requested'
          /\ spawned' = spawned
          /\ processed_issues' = processed_issues
          /\ issue_last_comment' = issue_last_comment
          /\ reap_log' = reap_log
          /\ last_skipped' = last_skipped
          /\ new_qualifying_issues' \in { new_qualifying_issues, << >> }
          /\ \A i \in TrackerIssues :
               \/ running_workflows'[i] = running_workflows[i]
               \/ running_workflows[i] = "running" /\ running_workflows'[i] = "finished"
          /\ (cron_pc # "stopped" /\ cron_pc' = "stopped") =>
               running_workflows' = running_workflows
      ]_vars

\* the dispatcher stopped on a signal that came during a dispatch loop: one
\* workflow it spawned is still running, the other qualifying issue was
\* never dispatched
C31_Witness ==
    /\ cron_pc = "stopped"
    /\ shutdown_requested
    /\ Len(spawned) = 1
    /\ \E i, j \in CronIssues :
         /\ i # j
         /\ running_workflows[i] = "running"
         /\ HasTrigger(LowerText(issue_body[j]))
         /\ j \notin processed_issues

\* C32: with --skip-issues stage 3 is never invoked and no created-issues list
\* is stored in the run record; after a successful stage 2 the merge is still
\* attempted, and the summary of the completed run reports the issues as
\* skipped.
C32_SkipIssues ==
    skip_issues =>
      /\ \A k \in 1..Len(invoked) : invoked[k] # 3
      /\ created_issues = << >>
      /\ state_data.created_issues = None
      /\ saved_state.created_issues = None
      /\ \A k \in 1..Len(emitted) : emitted[k].kind # "issues"
      /\ (pipe_exit = NoExit /\ state_data.prompts_file # None) =>
           pipe_pc \in { "merge", "summary", "done" }
      /\ pipe_pc \in { "summary", "done" } => attempts_merge = 1
      /\ pipe_pc = "done" =>
           /\ invoked = << 1, 2 >>
           /\ emitted[Len(emitted)].issues.skipped
           /\ emitted[Len(emitted)].issues.issues = << >>

\* a completed --skip-issues run whose merge succeeded
C32_Witness ==
    /\ skip_issues
    /\ pipe_pc = "done"
    /\ invoked = << 1, 2 >>
    /\ attempts_merge = 1
    /\ merge_status = "MERGED"
    /\ emitted[Len(emitted)].issues.skipped

\* the step ends a pass: the scan found nothing, or process_queue returned
PassEnds == zte_pc \in { "scan", "process" } /\ zte_pc' \notin { "scan", "process" }

\* the step is a workflow run that fails
PassHaltedByFailure ==
    /\ zte_pc = "process"
    /\ Len(pass_results') = Len(pass_results) + 1
    /\ ~pass_results'[Len(pass_results')].ok

SpawnFails(i) ==
    /\ cron_pc = "dispatching"
    /\ ~shutdown_requested
    /\ Head(new_qualifying_issues).issue = i
    /\ new_qualifying_issues' = Tail(new_qualifying_issues)
    /\ spawned' = spawned

\* C34 as claimed: when the spawn for a qualifying issue fails the issue is
\* not marked processed and should_process_issue still returns a workflow for
\* it, so the next cycle retries it, whether it qualified by its body or by
\* its latest comment.
C34_RetryAfterSpawnFailure ==
    [][ \A i \in CronIssues :
          SpawnFails(i) =>
            /\ i \notin processed_issues'
            /\ (ShouldProcessIssue(i, FetchIssueComments(i, TRUE)) # NoTrigger)'
      ]_vars

\* C35: no update persisted by a stage process is lost across the pipeline:
\* when the next stage process is about to load the run record, the record on
\* disk holds the worktree_path, ports and branch_name that the stage before
\* it saved, and no save of the orchestrator changes one of these fields on
\* disk.
C35_StageUpdatesSurvive ==
    /\ [](( run_pc = "stage_start" /\ run_stage > 1 ) =>
            Referenced(disk) = Referenced(stage_mem))
    /\ [][ run_pc = "orch_after" => Referenced(disk') = Referenced(disk) ]_vars

\* the step spawns a workflow process for issue i (concurrent dispatcher)
CronDispatches(i) ==
    /\ Len(spawned') = Len(spawned) + 1
    /\ spawned'[Len(spawned')].issue = i

\* the step runs the workflow of issue i (sequential processor)
ZteDispatches(i) ==
    /\ Len(pass_results') = Len(pass_results) + 1
    /\ pass_results'[Len(pass_results')].issue = i

\* C36: within the life of one dispatcher process an issue is dispatched at
\* most once: a dispatch of issue i happens only while i is not yet in the
\* process's set (processed_issues, completed_issues) and puts i into it, and
\* the set never loses a member, whatever comments arrive and however the
\* workflow ends; the concurrent dispatcher's spawn history never lists an
\* issue twice.
C36_DispatchedAtMostOnce ==
    /\ [][ /\ processed_issues \subseteq processed_issues'
           /\ completed_issues \subseteq completed_issues'
           /\ \A i \in TrackerIssues :
                /\ CronDispatches(i) => i \notin processed_issues /\ i \in processed_issues'
                /\ ZteDispatches(i) => i \notin completed_issues /\ i \in completed_issues'
         ]_vars
    /\ [](\A k, l \in 1..Len(spawned) : k < l => spawned[k].issue # spawned[l].issue)

\* the sequential processor ran issue 7, a user then posted a keyword comment
\* on it, and a later pass is running another issue without having queued 7
C36_Witness ==
    /\ zte_pc = "process"
    /\ 7 \in completed_issues
    /\ \E c \in comments[7] : c.body = T_RUN
    /\ ~HasTrigger(LowerText(issue_body[7]))
    /\ 7 \notin SeqRange(queue)
    /\ pass_results = << >>

\* the last execution of the layer is one whose agent call itself failed
AgentCallFailedLast(layer) ==
    \E k \in RunsOf(layer) :
      /\ \A l \in RunsOf(layer) : l <= k
      /\ ~test_log[k].ok

\* C37 as claimed: for every layer, when the agent call of the layer's last
\* execution failed, the layer ends with a failed count of at least one, no
\* later layer is executed and the process exits nonzero.
C37_AgentFailureFailsLayer ==
    \A layer \in AllLayers :
      (LayerOver(layer) /\ AgentCallFailedLast(layer)) =>
        /\ FinalFailed(layer) >= 1
        /\ \A later \in AllLayers :
             LayerRank(later) > LayerRank(layer) => RunsOf(later) = {}
        /\ test_pc = "exited" => test_exit # 0

\* C38 as claimed: the overall status of the final combined summary agrees
\* with the exit code: FAILED exactly when the process exits nonzero, PASSED
\* exactly when it exits 0.
C38_SummaryAgreesWithExit ==
    test_pc = "exited" =>
      /\ test_summary.overall = "FAILED" <=> test_exit # 0
      /\ test_summary.overall = "PASSED" <=> test_exit = 0

\* C39 as claimed: the mtime written to the log for a dispatched file is the
\* mtime the scan read when it judged the file new, so a file modified after
\* that scan (also between the scan and the write of the log entry) is not
\* processed as far as the log goes and a later poll dispatches it again.
C39_RecordedMtimeIsScanMtime ==
    [][ \A f \in FolderFiles :
          Dispatches(f) =>
            /\ processed_log'[f] = seen_mtime[f]
            /\ file_mtime'[f] # seen_mtime[f] => ~IsProcessed(f)'
      ]_vars

====
